---- MODULE Spec2Model ----
(***************************************************************************)
(* Model of the decklink-rs buffer/callback bridge.                        *)
(*                                                                         *)
(*   Part 1 (src/src/util.rs)       the status-code adapter SdkError.      *)
(*   Part 2 (src/src/allocator.rs)  the provider bridge: the spec ->       *)
(*          allocator cache, the allocator and buffer trampolines and the  *)
(*          reference counts of the native handles.                        *)
(*   Part 3 (src/src/device/input)  the input event bridge: the handler    *)
(*          slot behind its RwLock, set_callback, the two dispatch         *)
(*          trampolines and the teardown of the device-input object.       *)
(***************************************************************************)
EXTENDS Integers, Naturals, Sequences, FiniteSets, TLC

\* ------------------------------------------------------------------ bounds
MaxCalls == 3        \* provider_get_allocator calls made by the native side
MaxBufs == 2         \* native buffer handles created by allocator_allocate
MaxNativeRefs == 2   \* a native add_ref is taken only below this many holds
MaxSets == 2         \* set_callback calls made by the host
MaxOverlapped == 2   \* events the native side delivers when deliveries overlap
MaxEvents == 3       \* events the native side delivers
MaxCode == 10        \* status codes -MaxCode..MaxCode are handed to SdkError
MaxProviders == 2    \* provider bridges the device creates successfully

Specs == {"A", "B"}          \* BufferSpec values the native side asks for
Threads == {"t1", "t2"}      \* native threads calling provider_get_allocator
AllocIds == 1..MaxCalls      \* native allocator handles (one per call at most)
BufIds == 1..MaxBufs         \* native buffer handles
DispatchThreads == {"d1", "d2"}  \* native capture threads delivering events
WrapIds == 1..MaxSets        \* InputCallbackWrapper boxes (one per call at most)
ProviderIds == 1..MaxProviders  \* native allocator-provider handles
None == "None"               \* the empty handler slot
Torn == "Torn"               \* a slot value caught in the middle of a write
\* the handler passed to the k-th set_callback call: a fresh Arc each time
Handler(k) == ToString(k)
Handlers == {Handler(k) : k \in 1..MaxSets}

Null == 0
NoSpec == "-"

\* ------------------------------------------------------------- util.rs
S_OK == 0
S_FALSE == 1

SdkErrors ==
  {"FALSE", "UNEXPECTED", "NOTIMPL", "OUTOFMEMORY", "INVALIDARG", "NOINTERFACE",
   "POINTER", "HANDLE", "ABORT", "FAIL", "ACCESSDENIED"}

\* mutant: the discriminant of UNEXPECTED is not the value code() answers
SdkErrorDiscriminant_UnexpectedOff(e) ==
  CASE e = "FALSE" -> 1
    [] e = "UNEXPECTED" -> -65536
    [] e = "NOTIMPL" -> -1
    [] e = "OUTOFMEMORY" -> -2
    [] e = "INVALIDARG" -> -3
    [] e = "NOINTERFACE" -> -4
    [] e = "POINTER" -> -5
    [] e = "HANDLE" -> -6
    [] e = "ABORT" -> -7
    [] e = "FAIL" -> -8
    [] e = "ACCESSDENIED" -> -9

\* the enum discriminants (what FromPrimitive::from_i32 matches against)
SdkErrorDiscriminant(e) ==
  CASE e = "FALSE" -> 1
    [] e = "UNEXPECTED" -> -65535
    [] e = "NOTIMPL" -> -1
    [] e = "OUTOFMEMORY" -> -2
    [] e = "INVALIDARG" -> -3
    [] e = "NOINTERFACE" -> -4
    [] e = "POINTER" -> -5
    [] e = "HANDLE" -> -6
    [] e = "ABORT" -> -7
    [] e = "FAIL" -> -8
    [] e = "ACCESSDENIED" -> -9

\* mutant: code() answers the code of FAIL for every kind
SdkErrorCode_AlwaysFail(e) == -8

\* mutant: code() answers 0 for every kind
SdkErrorCode_Zero(e) == 0

\* SdkError::code
SdkErrorCode(e) ==
  CASE e = "FALSE" -> 1
    [] e = "UNEXPECTED" -> -65535
    [] e = "NOTIMPL" -> -1
    [] e = "OUTOFMEMORY" -> -2
    [] e = "INVALIDARG" -> -3
    [] e = "NOINTERFACE" -> -4
    [] e = "POINTER" -> -5
    [] e = "HANDLE" -> -6
    [] e = "ABORT" -> -7
    [] e = "FAIL" -> -8
    [] e = "ACCESSDENIED" -> -9

\* mutant: unrecognised codes become UNEXPECTED
SdkErrorFrom_DefaultsUnexpected(value) ==
  IF \E e \in SdkErrors : SdkErrorDiscriminant(e) = value
  THEN CHOOSE e \in SdkErrors : SdkErrorDiscriminant(e) = value
  ELSE "UNEXPECTED"

\* SdkError::from: from_i32(value).unwrap_or(FALSE)
SdkErrorFrom(value) ==
  IF \E e \in SdkErrors : SdkErrorDiscriminant(e) = value
  THEN CHOOSE e \in SdkErrors : SdkErrorDiscriminant(e) = value
  ELSE "FALSE"

\* SdkError::is_false
is_false(value) == value = SdkErrorDiscriminant("FALSE")

\* mutant: the benign-false code counts as success
is_ok_OrFalse(value) == value = 0 \/ value = 1

\* SdkError::is_ok
is_ok(value) == value = 0

\* Result<T, SdkError>
Ok(v) == [ok |-> TRUE, val |-> v, err |-> "-"]
Err(e) == [ok |-> FALSE, val |-> "-", err |-> e]

\* SdkError::result_or_else(r, ok): okv is what the closure returns
result_or_else(r, okv) == IF is_ok(r) THEN Ok(okv) ELSE Err(SdkErrorFrom(r))

\* SdkError::result_or(r, def)
result_or(r, def) == IF is_ok(r) THEN Ok(def) ELSE Err(SdkErrorFrom(r))

\* SdkError::result(r): result_or_else(r, Default::default)
SdkErrorResult(r) == result_or_else(r, "Default")

\* the i32 values handed to the adapter: around zero, and around the one code
\* that lies far from it
Codes == (-MaxCode..MaxCode) \cup {-65536, -65535, -65534}

\* status codes a native create/registration call may hand back: success, a
\* recognised failure and a code SdkError does not know
NativeResults == {0, -2, 7}
\* errors a host contract (provider, allocator) may return
HostErrors == {"FAIL", "OUTOFMEMORY"}

\* ------------------------------------------------------------ variables
VARIABLES
  pc,          \* per thread: position inside provider_get_allocator
  tspec,       \* per thread: the BufferSpec of the call in progress
  th,          \* per thread: the c_alloc the miss path created
  cache,       \* ProviderContext.allocator_cache
  pctx,        \* the ProviderContext box: "live" or "dropped"
  allocs,      \* native allocator handles with their AllocatorContext
  nativeHeld,  \* references to each allocator handle the native side holds
  bufs,        \* native buffer handles with their VideoBufferContext
  ncalls,      \* provider_get_allocator calls started
  hist,        \* per spec: host invocations, failed calls, handles returned
  plast        \* the trampoline return made most recently

provVars ==
  <<pc, tspec, th, cache, pctx, allocs, nativeHeld, bufs, ncalls, hist, plast>>

VARIABLES
  hpc,               \* the host thread: position in set_callback or drop
  harg,              \* the handler argument of the set_callback in progress
  callback_wrapper,  \* DecklinkInputDevice.callback_wrapper
  wrappers,          \* the InputCallbackWrapper boxes: slot and lock state
  nativeReg,         \* the context pointer registered with the native side
  nsets,             \* set_callback calls started
  setlog,            \* the handlers stored by the writes completed so far
  nevents,           \* events delivered, numbered in delivery order
  disp,              \* per capture thread: the dispatch it is running
  last,              \* the trampoline return made most recently
  seen               \* <<handler, event>> for each handler invocation, in order

inputVars ==
  <<hpc, harg, callback_wrapper, wrappers, nativeReg, nsets, setlog, nevents,
    disp, last, seen>>

\* the SdkError function called most recently, its argument and its result
VARIABLES ucall

utilVars == <<ucall>>

VARIABLES
  dpc,                 \* the device: "open", "closing" (in drop) or "closed"
  video_active,        \* DecklinkInputDevice.video_active
  ptr_video_active,    \* DecklinkInputDevicePtr.video_active, the shared flag
  allocator_provider,  \* DecklinkInputDevice.allocator_provider
  providers,           \* native provider handles with their ProviderContext
  nativeVideo,         \* the native input: enabled, streaming, provider in use
  teardown,            \* the steps drop has performed, in order
  dlast                \* the device call that returned most recently

devVars ==
  <<dpc, video_active, ptr_video_active, allocator_provider, providers,
    nativeVideo, teardown, dlast>>

\* the holder of the Mutex around ProviderContext.allocator_cache: a thread
\* inside provider_get_allocator, "release" for provider_release, or "free"
VARIABLES mutex

lockVars == <<mutex>>

\* what the last set_callback call returned
VARIABLES sret

retVars == <<sret>>

vars == <<provVars, inputVars, utilVars, devVars, lockVars, retVars>>

NoAlloc ==
  [st |-> "none", rc |-> 0, spec |-> NoSpec, ctx |-> "none", drops |-> 0,
   uaf |-> FALSE]
NoBuf ==
  [st |-> "none", alloc |-> Null, host |-> Null, ctx |-> "none",
   hostLive |-> FALSE, pdead |-> FALSE]
\* the call boxed no context
NoBox == [made |-> 0, dropped |-> 0]
\* a trampoline return: the trampoline, how often it called the host
\* operation, what the host operation returned ("ok" or the SdkError, "-" if
\* it was not called), what the native create call returned (0 if none was
\* made), the context the call boxed and how often it dropped it again,
\* whether the output pointer was written, the code returned
NoTrampolineReturn ==
  [op |-> "-", host |-> 0, herr |-> "-", native |-> 0, box |-> NoBox,
   wrote |-> FALSE, ret |-> 0]
TrampolineReturn(op, host, herr, native, box, wrote, ret) ==
  [op |-> op, host |-> host, herr |-> herr, native |-> native, box |-> box,
   wrote |-> wrote, ret |-> ret]
\* plast is a history variable: nothing the bridge does depends on it.  A
\* specification whose properties do not mention return codes starts it at
\* Unobserved, where it stays.
Unobserved ==
  [op |-> "unobserved", host |-> 0, herr |-> "-", native |-> 0,
   box |-> NoBox, wrote |-> FALSE, ret |-> 0]
TrampolineReturns(op, host, herr, native, box, wrote, ret) ==
  plast' = IF plast = Unobserved THEN plast
           ELSE TrampolineReturn(op, host, herr, native, box, wrote, ret)

ProviderCreated ==
  /\ pc = [t \in Threads |-> "idle"]
  /\ tspec = [t \in Threads |-> NoSpec]
  /\ th = [t \in Threads |-> Null]
  /\ cache = [s \in Specs |-> Null]
  /\ pctx = "live"
  /\ allocs = [h \in AllocIds |-> NoAlloc]
  /\ nativeHeld = [h \in AllocIds |-> 0]
  /\ bufs = [b \in BufIds |-> NoBuf]
  /\ ncalls = 0
  /\ hist = [hostCalls |-> [s \in Specs |-> 0],
             failCalls |-> [s \in Specs |-> 0],
             returned |-> [s \in Specs |-> {}]]

ProvInit == ProviderCreated /\ plast = NoTrampolineReturn

\* ---------------------------------------------- calls of the result adapter
NoCall == [fn |-> "-", value |-> 0, out |-> Ok("-")]

UtilInit == ucall = NoCall

UtilIsOk(v) ==
  ucall' = [fn |-> "is_ok", value |-> v, out |-> Ok(is_ok(v))]

UtilIsFalse(v) ==
  ucall' = [fn |-> "is_false", value |-> v, out |-> Ok(is_false(v))]

UtilFrom(v) ==
  ucall' = [fn |-> "from", value |-> v, out |-> Ok(SdkErrorFrom(v))]

\* e.code() of the kind SdkError::from(v) returned
UtilFromCode(v) ==
  ucall' = [fn |-> "from_code", value |-> v,
            out |-> Ok(SdkErrorCode(SdkErrorFrom(v)))]

UtilResult(v) ==
  ucall' = [fn |-> "result", value |-> v, out |-> SdkErrorResult(v)]

UtilResultOr(v) ==
  ucall' = [fn |-> "result_or", value |-> v, out |-> result_or(v, "def")]

UtilResultOrElse(v) ==
  ucall' = [fn |-> "result_or_else", value |-> v,
            out |-> result_or_else(v, "made")]

\* e.code() for a kind e
UtilCode(e) ==
  ucall' = [fn |-> "code", value |-> e, out |-> Ok(SdkErrorCode(e))]

\* SdkError::from(e.code()) for a kind e
UtilCodeFrom(e) ==
  ucall' = [fn |-> "code_from", value |-> e,
            out |-> Ok(SdkErrorFrom(SdkErrorCode(e)))]

\* the adapter applied to an error kind
UtilKindStep == \E e \in SdkErrors : UtilCode(e) \/ UtilCodeFrom(e)

UtilStep ==
  \E v \in Codes :
    \/ UtilIsOk(v)
    \/ UtilIsFalse(v)
    \/ UtilFrom(v)
    \/ UtilFromCode(v)
    \/ UtilResult(v)
    \/ UtilResultOr(v)
    \/ UtilResultOrElse(v)

\* ------------------------------------------------ native reference counts
\* mutant: add_ref leaves the count as it is
allocator_add_ref_Noop(A, h) == A

\* cdecklink_video_buffer_allocator_add_ref
allocator_add_ref(A, h) ==
  [A EXCEPT ![h].rc = @ + 1, ![h].uaf = @ \/ A[h].st # "alive"]

\* allocator_release: the release trampoline reclaims the AllocatorContext
allocator_release(r) ==
  [r EXCEPT !.ctx = "dropped", !.drops = @ + 1]

\* cdecklink_video_buffer_allocator_release: the count drops by one and the
\* release trampoline runs when it reaches zero.  A release of a handle that
\* is already freed is a use after free; it is flagged and runs the
\* trampoline a second time.
allocator_handle_release(r) ==
  IF r.st # "alive" \/ r.rc <= 0
  THEN allocator_release([r EXCEPT !.uaf = TRUE])
  ELSE IF r.rc = 1
  THEN allocator_release([r EXCEPT !.rc = 0, !.st = "freed"])
  ELSE [r EXCEPT !.rc = @ - 1]

\* ------------------------------------------------------ allocator cache
\* cache.get(&spec)
CacheGet(c, s) == c[s]

\* mutant: the miss path forgets to insert the handle it made
CacheInsert_Forgotten(c, s, h) == c

\* cache.insert(spec, c_alloc): HashMap::insert replaces an existing entry
CacheInsert(c, s, h) == [c EXCEPT ![s] = h]

CachedHandles == {cache[s] : s \in Specs} \ {Null}

\* mutant: the cache stores the handle without taking its own reference
CacheHoldAddRef_Missing(A, h) == A

\* the miss path's "AddRef for the cache"
CacheHoldAddRef(A, h) == allocator_add_ref(A, h)

\* create_c_allocator: the AllocatorContext it boxes stays with the handle
\* on success and is dropped once, drop(Box::from_raw(ctx)), on failure
AllocatorContextBox(result) ==
  [made |-> 1, dropped |-> IF is_ok(result) THEN 0 ELSE 1]

\* create_c_allocator: box the context and ask the native side for a handle;
\* on failure the context is dropped again and no handle exists
create_c_allocator(A, h, s, result) ==
  IF is_ok(result)
  THEN [A EXCEPT ![h] = [st |-> "alive", rc |-> 1, spec |-> s, ctx |-> "live",
                         drops |-> 0, uaf |-> FALSE]]
  ELSE A

FreshAlloc == CHOOSE h \in AllocIds :
                /\ allocs[h].st = "none"
                /\ \A g \in AllocIds : g < h => allocs[g].st # "none"
FreshBuf == CHOOSE b \in BufIds :
              /\ bufs[b].st = "none"
              /\ \A g \in BufIds : g < b => bufs[g].st # "none"

\* the call returns to the native side: its locals are gone
Returned(t) ==
  /\ pc' = [pc EXCEPT ![t] = "idle"]
  /\ tspec' = [tspec EXCEPT ![t] = NoSpec]
  /\ th' = [th EXCEPT ![t] = Null]

\* provider_get_allocator, cache hit: under the lock, add_ref and return
ProviderGetAllocatorHit(t, s) ==
  /\ pc[t] = "idle" /\ pctx = "live" /\ ncalls < MaxCalls
  /\ CacheGet(cache, s) # Null
  /\ LET h == CacheGet(cache, s) IN
       /\ allocs' = allocator_add_ref(allocs, h)
       /\ nativeHeld' = [nativeHeld EXCEPT ![h] = @ + 1]
       /\ hist' = [hist EXCEPT !.returned[s] = @ \cup {h}]
  /\ ncalls' = ncalls + 1
  /\ TrampolineReturns("get_allocator", 0, "-", 0, NoBox, TRUE, S_OK)
  /\ UNCHANGED <<pc, tspec, th, cache, pctx, bufs>>

\* provider_get_allocator, cache miss: the lock is dropped before the host call
ProviderGetAllocatorMiss(t, s) ==
  /\ pc[t] = "idle" /\ pctx = "live" /\ ncalls < MaxCalls
  /\ CacheGet(cache, s) = Null
  /\ pc' = [pc EXCEPT ![t] = "host"]
  /\ tspec' = [tspec EXCEPT ![t] = s]
  /\ ncalls' = ncalls + 1
  /\ UNCHANGED <<th, cache, pctx, allocs, nativeHeld, bufs, hist, plast>>

\* pctx.provider.get_allocator(spec): Err(e) returns e.code()
HostGetAllocator(t) ==
  /\ pc[t] = "host"
  /\ \E r \in {"ok"} \cup HostErrors :
       IF r = "ok"
       THEN /\ pc' = [pc EXCEPT ![t] = "wrap"]
            /\ hist' = [hist EXCEPT !.hostCalls[tspec[t]] = @ + 1]
            /\ UNCHANGED <<tspec, th, plast>>
       ELSE /\ Returned(t)
            /\ hist' = [hist EXCEPT !.hostCalls[tspec[t]] = @ + 1,
                                    !.failCalls[tspec[t]] = @ + 1]
            /\ TrampolineReturns("get_allocator", 1, r, 0, NoBox, FALSE,
                                 SdkErrorCode(r))
  /\ UNCHANGED <<cache, pctx, allocs, nativeHeld, bufs, ncalls>>

\* create_c_allocator(rust_allocator): Err(e) returns e.code()
CreateCAllocator(t) ==
  /\ pc[t] = "wrap"
  /\ \E result \in NativeResults :
       /\ allocs' = create_c_allocator(allocs, FreshAlloc, tspec[t], result)
       /\ IF is_ok(result)
          THEN /\ pc' = [pc EXCEPT ![t] = "insert"]
               /\ th' = [th EXCEPT ![t] = FreshAlloc]
               /\ UNCHANGED <<tspec, hist, plast>>
          ELSE /\ Returned(t)
               /\ hist' = [hist EXCEPT !.failCalls[tspec[t]] = @ + 1]
               /\ TrampolineReturns("get_allocator", 1, "ok", result,
                                    AllocatorContextBox(result), FALSE,
                                    SdkErrorCode(SdkErrorFrom(result)))
  /\ UNCHANGED <<cache, pctx, nativeHeld, bufs, ncalls>>

\* add_ref for the cache, insert under the lock, write *allocator, return 0
CacheInsertAndReturn(t) ==
  /\ pc[t] = "insert"
  /\ LET h == th[t]
         s == tspec[t] IN
       /\ allocs' = CacheHoldAddRef(allocs, h)
       /\ cache' = CacheInsert(cache, s, h)
       /\ nativeHeld' = [nativeHeld EXCEPT ![h] = @ + 1]
       /\ hist' = [hist EXCEPT !.returned[s] = @ \cup {h}]
  /\ Returned(t)
  /\ TrampolineReturns("get_allocator", 1, "ok", S_OK,
                       AllocatorContextBox(S_OK), TRUE, S_OK)
  /\ UNCHANGED <<pctx, bufs, ncalls>>

\* mutant: provider_release reclaims every cached allocator context itself
\* instead of releasing one reference on its handle
provider_release_FreesAll(A, c) ==
  [h \in AllocIds |->
     IF h \in ({c[s] : s \in Specs} \ {Null})
     THEN allocator_release([A[h] EXCEPT !.rc = 0, !.st = "freed"])
     ELSE A[h]]

\* provider_release: release the cache's hold on every cached handle, then
\* the ProviderContext box (and the HashMap in it) is dropped
provider_release(A, c) ==
  [h \in AllocIds |->
     IF h \in ({c[s] : s \in Specs} \ {Null})
     THEN allocator_handle_release(A[h])
     ELSE A[h]]

\* the native side discards the provider: once, with no call in progress
NativeProviderRelease ==
  /\ pctx = "live"
  /\ \A t \in Threads : pc[t] = "idle"
  /\ allocs' = provider_release(allocs, cache)
  /\ pctx' = "dropped"
  /\ cache' = [s \in Specs |-> Null]
  /\ UNCHANGED <<pc, tspec, th, nativeHeld, bufs, ncalls, hist, plast>>

\* the native side takes one more reference on a handle it holds
NativeAllocatorAddRef(h) ==
  /\ nativeHeld[h] > 0 /\ nativeHeld[h] < MaxNativeRefs
  /\ allocs' = allocator_add_ref(allocs, h)
  /\ nativeHeld' = [nativeHeld EXCEPT ![h] = @ + 1]
  /\ UNCHANGED <<pc, tspec, th, cache, pctx, bufs, ncalls, hist, plast>>

\* the native side gives up one of its references
NativeAllocatorRelease(h) ==
  /\ nativeHeld[h] > 0
  /\ allocs' = [allocs EXCEPT ![h] = allocator_handle_release(@)]
  /\ nativeHeld' = [nativeHeld EXCEPT ![h] = @ - 1]
  /\ UNCHANGED <<pc, tspec, th, cache, pctx, bufs, ncalls, hist, plast>>

\* mutant: the release trampoline does not reclaim the context
video_buffer_release_Leaks(r) == [r EXCEPT !.st = "freed"]

\* video_buffer_release: reclaims the VideoBufferContext and the host buffer
video_buffer_release(r) ==
  [r EXCEPT !.st = "freed", !.ctx = "dropped", !.hostLive = FALSE]

\* mutant: a failed native create forgets the context with the host buffer
VideoBufferContextBox_Kept(result) == [made |-> 1, dropped |-> 0]

\* create_c_video_buffer: the VideoBufferContext it boxes around the host
\* buffer stays with the handle on success and is dropped once, with the
\* buffer in it, on failure
VideoBufferContextBox(result) ==
  [made |-> 1, dropped |-> IF is_ok(result) THEN 0 ELSE 1]

\* create_c_video_buffer: box the context around the host buffer and ask the
\* native side for a buffer handle; on failure context and buffer are dropped
create_c_video_buffer(B, b, h, result) ==
  IF is_ok(result)
  THEN [B EXCEPT ![b] = [st |-> "alive", alloc |-> h, host |-> b,
                         ctx |-> "live", hostLive |-> TRUE,
                         pdead |-> pctx = "dropped"]]
  ELSE B

\* allocator_allocate on a handle the native side holds: the host allocator
\* makes a buffer, create_c_video_buffer wraps it
AllocatorAllocate(h) ==
  /\ nativeHeld[h] > 0
  /\ \E b \in BufIds : bufs[b].st = "none"
  /\ \E r \in {"ok"} \cup HostErrors, result \in NativeResults :
       IF allocs[h].ctx # "live"
       THEN /\ allocs' = [allocs EXCEPT ![h].uaf = TRUE]
            /\ UNCHANGED <<bufs, plast>>
       ELSE /\ bufs' = IF r = "ok"
                       THEN create_c_video_buffer(bufs, FreshBuf, h, result)
                       ELSE bufs
            /\ IF r # "ok"
               THEN TrampolineReturns("allocate", 1, r, 0, NoBox, FALSE,
                                      SdkErrorCode(r))
               ELSE IF is_ok(result)
               THEN TrampolineReturns("allocate", 1, "ok", result,
                                      VideoBufferContextBox(result), TRUE, S_OK)
               ELSE TrampolineReturns("allocate", 1, "ok", result,
                                      VideoBufferContextBox(result), FALSE,
                                      SdkErrorCode(SdkErrorFrom(result)))
            /\ UNCHANGED allocs
  /\ UNCHANGED <<pc, tspec, th, cache, pctx, nativeHeld, ncalls, hist>>

\* the native side releases a buffer it was handed
NativeBufferRelease(b) ==
  /\ bufs[b].st = "alive"
  /\ bufs' = [bufs EXCEPT ![b] = video_buffer_release(@)]
  /\ UNCHANGED <<pc, tspec, th, cache, pctx, allocs, nativeHeld, ncalls, hist,
                 plast>>

\* video_buffer_get_bytes, video_buffer_start_access, video_buffer_end_access
\* on a buffer the native side holds: the host buffer's operation is called
\* and Err(e) is returned as e.code(); get_bytes writes *buffer on success
BufferOps == {"get_bytes", "start_access", "end_access"}

VideoBufferCall(b, op) ==
  /\ bufs[b].st = "alive"
  /\ \E r \in {"ok"} \cup HostErrors :
       IF r = "ok"
       THEN TrampolineReturns(op, 1, "ok", 0, NoBox, op = "get_bytes", S_OK)
       ELSE TrampolineReturns(op, 1, r, 0, NoBox, FALSE, SdkErrorCode(r))
  /\ UNCHANGED <<pc, tspec, th, cache, pctx, allocs, nativeHeld, bufs, ncalls,
                 hist>>

\* calls that do not overlap are all made by one native thread
FirstThread(t) == \A u \in Threads : pc[u] = "idle" => t = "t1"

ThreadStep(t) ==
  \/ \E s \in Specs : ProviderGetAllocatorHit(t, s)
  \/ \E s \in Specs : ProviderGetAllocatorMiss(t, s)
  \/ HostGetAllocator(t)
  \/ CreateCAllocator(t)
  \/ CacheInsertAndReturn(t)

\* the native side's handling of the allocator handles and of the provider
NativeRefStep ==
  \/ NativeProviderRelease
  \/ \E h \in AllocIds : NativeAllocatorAddRef(h)
  \/ \E h \in AllocIds : NativeAllocatorRelease(h)

\* the native side's use of the allocators it holds
NativeBufferStep ==
  \/ \E h \in AllocIds : AllocatorAllocate(h)
  \/ \E b \in BufIds : NativeBufferRelease(b)

\* the native side's access to the buffers it holds
NativeBufferAccessStep ==
  \E b \in BufIds, op \in BufferOps : VideoBufferCall(b, op)

\* ------------------------------------------------- the cache's Mutex
Free == "free"

LockInit == mutex = Free

\* allocator_cache.lock() returns once nobody holds the mutex
CacheLock(holder) == mutex = Free /\ mutex' = holder

\* provider_get_allocator, line 230: the lookup block takes the lock
LookupLock(t) ==
  /\ pc[t] = "idle" /\ pctx = "live" /\ ncalls < MaxCalls
  /\ CacheLock(t)
  /\ UNCHANGED provVars

\* the hit path returns from inside the lookup block: the guard is dropped
\* on return
LockedHit(t) ==
  /\ mutex = t
  /\ \E s \in Specs : ProviderGetAllocatorHit(t, s)
  /\ mutex' = Free

\* mutant: the guard of the lookup lives on after the block
MissUnlock_Held(t) == t

\* the lookup block ends on a miss: the guard is dropped
MissUnlock(t) == Free

LockedMiss(t) ==
  /\ mutex = t
  /\ \E s \in Specs : ProviderGetAllocatorMiss(t, s)
  /\ mutex' = MissUnlock(t)

\* the host provider's get_allocator and create_c_allocator take no lock
UnlockedCreate(t) ==
  /\ HostGetAllocator(t) \/ CreateCAllocator(t)
  /\ UNCHANGED mutex

\* line 245: allocator_cache.lock() before the insert
InsertLock(t) ==
  /\ pc[t] = "insert"
  /\ CacheLock(t)
  /\ UNCHANGED provVars

\* the insert; the temporary guard is dropped at the end of the statement
LockedInsert(t) ==
  /\ mutex = t
  /\ CacheInsertAndReturn(t)
  /\ mutex' = Free

\* provider_release, line 258: the lock is taken for the iteration
ReleaseLock ==
  /\ pctx = "live" /\ \A t \in Threads : pc[t] = "idle"
  /\ CacheLock("release")
  /\ UNCHANGED provVars

\* the iteration releases the cached handles; guard and context are dropped
LockedRelease ==
  /\ mutex = "release"
  /\ NativeProviderRelease
  /\ mutex' = Free

LockStep(t) ==
  \/ LookupLock(t)
  \/ LockedHit(t)
  \/ LockedMiss(t)
  \/ UnlockedCreate(t)
  \/ InsertLock(t)
  \/ LockedInsert(t)

\* ======================================================================
\* The input event bridge
\* ======================================================================

NoWrapper ==
  [st |-> "none", handler |-> None, readers |-> 0, writer |-> FALSE,
   everReg |-> FALSE]
NoDispatch ==
  [st |-> "idle", ev |-> 0, kind |-> "-", payload |-> "-", ctx |-> Null,
   bv |-> 0, ov |-> 0, obs |-> None, uaf |-> FALSE, guard |-> FALSE,
   arg |-> "-"]
\* a return: the event, whether the handler ran and what it answered, and the
\* status code handed back to the native side
NoReturn == [ev |-> 0, called |-> FALSE, hret |-> TRUE, ret |-> S_OK]

InputInit ==
  /\ hpc = "idle"
  /\ harg = None
  /\ callback_wrapper = Null
  /\ wrappers = [w \in WrapIds |-> NoWrapper]
  /\ nativeReg = Null
  /\ nsets = 0
  /\ setlog = <<>>
  /\ nevents = 0
  /\ disp = [d \in DispatchThreads |-> NoDispatch]
  /\ last = NoReturn
  /\ seen = <<>>

FreshWrapper == CHOOSE w \in WrapIds :
                  /\ wrappers[w].st = "none"
                  /\ \A g \in WrapIds : g < w => wrappers[g].st # "none"

\* ---------------------------------------------------- the slot's RwLock
\* mutant: the trampoline reads the slot without taking the lock
CanRead_Unlocked(r) == TRUE

\* handler.read() returns once no writer holds the lock
CanRead(r) == ~r.writer

\* handler.write() returns once nobody holds the lock
CanWrite(r) == r.readers = 0 /\ ~r.writer

\* ------------------------------------------------------------ set_callback
\* mutant: a failed registration leaves the wrapper allocated, with the
\* handler in its slot
SetCallbackRegisterWith_KeepsWrapper(h, result) ==
  /\ hpc = "idle" /\ callback_wrapper = Null /\ nsets < MaxSets
  /\ nsets' = nsets + 1
  /\ LET w == FreshWrapper IN
       IF is_ok(result)
       THEN /\ wrappers' = [wrappers EXCEPT ![w] =
                              [NoWrapper EXCEPT !.st = "alive",
                                                !.everReg = TRUE]]
            /\ nativeReg' = w
            /\ callback_wrapper' = w
            /\ hpc' = "write_lock"
            /\ harg' = h
       ELSE /\ wrappers' = [wrappers EXCEPT ![w] =
                              [NoWrapper EXCEPT !.st = "alive",
                                                !.handler = h]]
            /\ UNCHANGED <<nativeReg, callback_wrapper, hpc, harg>>
  /\ UNCHANGED <<setlog, nevents, disp, last, seen>>

\* register_input_callback: box a wrapper with an empty slot and register the
\* two trampolines with it as context; a failed registration leaves the
\* native side as it was and the wrapper is freed at once
SetCallbackRegisterWith(h, result) ==
  /\ hpc = "idle" /\ callback_wrapper = Null /\ nsets < MaxSets
  /\ nsets' = nsets + 1
  /\ LET w == FreshWrapper IN
       IF is_ok(result)
       THEN /\ wrappers' = [wrappers EXCEPT ![w] =
                              [NoWrapper EXCEPT !.st = "alive",
                                                !.everReg = TRUE]]
            /\ nativeReg' = w
            /\ callback_wrapper' = w
            /\ hpc' = "write_lock"
            /\ harg' = h
       ELSE /\ wrappers' = [wrappers EXCEPT ![w] =
                              [NoWrapper EXCEPT !.st = "freed"]]
            /\ UNCHANGED <<nativeReg, callback_wrapper, hpc, harg>>
  /\ UNCHANGED <<setlog, nevents, disp, last, seen>>

\* set_callback on a device that has no wrapper yet, whatever the native
\* registration answers
SetCallbackRegister(h) ==
  \E result \in NativeResults : SetCallbackRegisterWith(h, result)

\* mutant: set_callback registers a new wrapper on every call
SetCallbackReplace_Reregisters(h) ==
  /\ hpc = "idle" /\ callback_wrapper # Null /\ nsets < MaxSets
  /\ nsets' = nsets + 1
  /\ wrappers' = [wrappers EXCEPT ![FreshWrapper] =
                     [NoWrapper EXCEPT !.st = "alive", !.everReg = TRUE]]
  /\ nativeReg' = FreshWrapper
  /\ callback_wrapper' = FreshWrapper
  /\ hpc' = "write_lock"
  /\ harg' = h
  /\ UNCHANGED <<setlog, nevents, disp, last, seen>>

\* set_callback on a device whose wrapper is registered already
SetCallbackReplace(h) ==
  /\ hpc = "idle" /\ callback_wrapper # Null /\ nsets < MaxSets
  /\ nsets' = nsets + 1
  /\ hpc' = "write_lock"
  /\ harg' = h
  /\ UNCHANGED <<callback_wrapper, wrappers, nativeReg, setlog, nevents, disp,
                 last, seen>>

\* wrapper.handler.write(): the assignment to the slot begins
SetCallbackLock ==
  /\ hpc = "write_lock"
  /\ CanWrite(wrappers[callback_wrapper])
  /\ wrappers' = [wrappers EXCEPT ![callback_wrapper].writer = TRUE,
                                  ![callback_wrapper].handler = Torn]
  /\ hpc' = "writing"
  /\ UNCHANGED <<harg, callback_wrapper, nativeReg, nsets, setlog, nevents,
                 disp, last, seen>>

\* mutant: storing None in the slot also clears the native registration
SetCallbackStore_Deregisters ==
  /\ hpc = "writing"
  /\ wrappers' = [wrappers EXCEPT ![callback_wrapper].writer = FALSE,
                                  ![callback_wrapper].handler = harg]
  /\ setlog' = Append(setlog, harg)
  /\ hpc' = "idle"
  /\ harg' = None
  /\ nativeReg' = IF harg = None THEN Null ELSE nativeReg
  /\ UNCHANGED <<callback_wrapper, nsets, nevents, disp, last, seen>>

\* the assignment completes, the write guard is dropped, Ok(()) is returned
SetCallbackStore ==
  /\ hpc = "writing"
  /\ wrappers' = [wrappers EXCEPT ![callback_wrapper].writer = FALSE,
                                  ![callback_wrapper].handler = harg]
  /\ setlog' = Append(setlog, harg)
  /\ hpc' = "idle"
  /\ harg' = None
  /\ UNCHANGED <<callback_wrapper, nativeReg, nsets, nevents, disp, last, seen>>

\* -------------------------------------------- Drop for DecklinkInputDevice
\* mutant: the wrapper is reclaimed without clearing the native registration
DropClearCallback_NotCleared ==
  /\ hpc = "idle"
  /\ hpc' = IF callback_wrapper # Null THEN "drop_free" ELSE "dropped"
  /\ UNCHANGED <<harg, callback_wrapper, wrappers, nativeReg, nsets, setlog,
                 nevents, disp, last, seen>>

\* drop: if a wrapper is registered, cdecklink_input_set_callback(dev, null,
\* None, None) tells the native side to stop invoking it
DropClearCallback ==
  /\ hpc = "idle"
  /\ IF callback_wrapper # Null
     THEN /\ nativeReg' = Null
          /\ hpc' = "drop_free"
     ELSE /\ hpc' = "dropped"
          /\ UNCHANGED nativeReg
  /\ UNCHANGED <<harg, callback_wrapper, wrappers, nsets, setlog, nevents,
                 disp, last, seen>>

\* drop(Box::from_raw(self.callback_wrapper)); self.callback_wrapper = null
DropFreeWrapper ==
  /\ hpc = "drop_free"
  /\ wrappers' = [wrappers EXCEPT ![callback_wrapper].st = "freed"]
  /\ callback_wrapper' = Null
  /\ hpc' = "dropped"
  /\ UNCHANGED <<harg, nativeReg, nsets, setlog, nevents, disp, last, seen>>

\* --------------------------------------------------- dispatch trampolines
EventKinds == {"frame", "format"}
\* frame: a null pointer, a frame, a frame whose conversion yields null;
\* format: a null mode pointer, a recognised mode, an unrecognised mode value
Payloads == {"null", "valid", "bad"}

Busy(d) == disp[d].st # "idle"

\* mutant: the format-changed trampoline passes on whatever mode value the
\* native side reports
HandlerArg_RawMode(kind, payload) ==
  IF kind = "frame"
  THEN (IF payload = "valid" THEN "Frame" ELSE "NoFrame")
  ELSE (IF payload = "null" THEN "Unknown" ELSE "Mode")

\* the value handed to the handler: Option<DecklinkVideoFrame> for a frame,
\* the DecklinkDisplayModeId for a format change
HandlerArg(kind, payload) ==
  IF kind = "frame"
  THEN (IF payload = "valid" THEN "Frame" ELSE "NoFrame")
  ELSE (IF payload = "valid" THEN "Mode" ELSE "Unknown")

\* mutant: the frame trampoline answers S_OK whatever the handler said
FrameArrivedStatus_AlwaysOk(result) == S_OK

\* video_input_frame_arrived_callback: if result { 0 } else { 1 }
FrameArrivedStatus(result) == IF result THEN S_OK ELSE S_FALSE

\* mutant: the format-changed trampoline translates its arguments and
\* forgets to call the handler
HandlerCalls_FormatDropped(kind, obs) ==
  IF obs = None \/ kind = "format" THEN 0 ELSE 1

\* how often a trampoline calls the handler it found in the slot
HandlerCalls(kind, obs) == IF obs = None THEN 0 ELSE 1

\* the capture thread that delivers the next event: the first one free
FreeThread(d) ==
  /\ ~Busy(d)
  /\ \A o \in DispatchThreads : ~Busy(o) => (d = "d1" \/ o # "d1")

\* the native side calls a trampoline with the context it has registered
DispatchBegin(d, kind) ==
  /\ nativeReg # Null
  /\ FreeThread(d)
  /\ nevents < MaxEvents
  /\ nevents' = nevents + 1
  /\ disp' = [disp EXCEPT ![d] =
                [NoDispatch EXCEPT !.st = "entered", !.ev = nevents + 1,
                                   !.kind = kind, !.ctx = nativeReg,
                                   !.bv = Len(setlog)]]
  /\ UNCHANGED <<hpc, harg, callback_wrapper, wrappers, nativeReg, nsets,
                 setlog, last, seen>>

\* wrapper.handler.read(): take the read lock and look at the slot.  A
\* wrapper that was freed in the meantime is read after free: the read may
\* find the stale slot content, an empty slot or garbage.
DispatchRead(d) ==
  /\ disp[d].st = "entered"
  /\ LET w == disp[d].ctx IN
       IF wrappers[w].st = "alive"
       THEN /\ CanRead(wrappers[w])
            /\ wrappers' = [wrappers EXCEPT ![w].readers = @ + 1]
            /\ disp' = [disp EXCEPT ![d].st = "locked",
                                    ![d].guard = TRUE,
                                    ![d].obs = wrappers[w].handler,
                                    ![d].ov = Len(setlog)]
       ELSE /\ \E v \in {wrappers[w].handler, None, Torn} :
                 disp' = [disp EXCEPT ![d].st = "locked",
                                      ![d].uaf = TRUE,
                                      ![d].obs = v,
                                      ![d].ov = Len(setlog)]
            /\ UNCHANGED wrappers
  /\ UNCHANGED <<hpc, harg, callback_wrapper, nativeReg, nsets, setlog,
                 nevents, last, seen>>

\* the read guard of thread d is dropped
ReleaseRead(W, d) ==
  IF disp[d].guard /\ W[disp[d].ctx].st = "alive"
  THEN [W EXCEPT ![disp[d].ctx].readers = @ - 1]
  ELSE W

\* the body of `if let Some(handler) = &*wrapper.handler.read().unwrap()`:
\* with an empty slot the trampoline returns S_OK at once; otherwise the
\* arguments are translated and the handler is called, the read guard being
\* kept for the whole block (keep) or given up before the call.  payload is
\* the pointer argument of the native call, looked at only inside the block.
DispatchInvokeWith(d, payload, keep) ==
  /\ disp[d].st = "locked"
  /\ LET n == HandlerCalls(disp[d].kind, disp[d].obs) IN
       IF disp[d].obs = None
       THEN /\ last' = [ev |-> disp[d].ev, called |-> FALSE, hret |-> TRUE,
                         ret |-> S_OK]
            /\ disp' = [disp EXCEPT ![d] = NoDispatch]
            /\ wrappers' = ReleaseRead(wrappers, d)
            /\ UNCHANGED seen
       ELSE /\ UNCHANGED last
            /\ disp' = [disp EXCEPT
                          ![d].st = "handler",
                          ![d].guard = keep /\ @,
                          ![d].payload = payload,
                          ![d].arg = HandlerArg(disp[d].kind, payload)]
            /\ wrappers' = IF keep THEN wrappers ELSE ReleaseRead(wrappers, d)
            /\ seen' = seen \o [i \in 1..n |-> <<disp[d].obs, disp[d].ev>>]
  /\ UNCHANGED <<hpc, harg, callback_wrapper, nativeReg, nsets, setlog,
                 nevents>>

\* mutant: the trampoline copies the handler out of the slot and drops the
\* read guard before calling it
DispatchInvoke_GuardDropped(d, payload) ==
  DispatchInvokeWith(d, payload, FALSE)

\* both trampolines: the guard temporary lives to the end of the if-let block
DispatchInvoke(d, payload) == DispatchInvokeWith(d, payload, TRUE)

\* the handler returns: the guard is dropped and the status code returned.
\* Only video_input_frame_arrived has a result to forward.
DispatchReturn(d) ==
  /\ disp[d].st = "handler"
  /\ \E r \in (IF disp[d].kind = "frame" THEN BOOLEAN ELSE {TRUE}) :
       last' = [ev |-> disp[d].ev, called |-> TRUE, hret |-> r,
                ret |-> IF disp[d].kind = "frame"
                        THEN FrameArrivedStatus(r) ELSE S_OK]
  /\ disp' = [disp EXCEPT ![d] = NoDispatch]
  /\ wrappers' = ReleaseRead(wrappers, d)
  /\ UNCHANGED <<hpc, harg, callback_wrapper, nativeReg, nsets, setlog,
                 nevents, seen>>

\* the handler the host passes: a new one, or None to deregister
HandlerArgs == {Handler(nsets + 1), None}

HostStep ==
  \/ \E h \in HandlerArgs : SetCallbackRegister(h)
  \/ \E h \in HandlerArgs : SetCallbackReplace(h)
  \/ SetCallbackLock
  \/ SetCallbackStore
  \/ DropClearCallback
  \/ DropFreeWrapper

DispatchStep(d) ==
  \/ DispatchRead(d)
  \/ \E p \in Payloads : DispatchInvoke(d, p)
  \/ DispatchReturn(d)

\* ------------------------------------------- frame delivery without end
\* the capture thread d delivers one more frame: the frame-arrived trampoline
\* is entered with the registered context.  Frames keep coming for as long as
\* the device is registered, so they are not counted.
SustainedBegin(d) ==
  /\ nativeReg # Null
  /\ ~Busy(d)
  /\ disp' = [disp EXCEPT ![d] =
                [NoDispatch EXCEPT !.st = "entered", !.ev = nevents + 1,
                                   !.kind = "frame", !.ctx = nativeReg,
                                   !.bv = Len(setlog)]]
  /\ UNCHANGED <<hpc, harg, callback_wrapper, wrappers, nativeReg, nsets,
                 setlog, nevents, last, seen>>

\* the if-let block of the frame-arrived trampoline as DispatchInvoke has
\* it, the read guard kept for the whole block; the calls are not recorded
SustainedInvoke(d, payload) ==
  /\ disp[d].st = "locked"
  /\ IF disp[d].obs = None
     THEN /\ last' = [ev |-> disp[d].ev, called |-> FALSE, hret |-> TRUE,
                       ret |-> S_OK]
          /\ disp' = [disp EXCEPT ![d] = NoDispatch]
          /\ wrappers' = ReleaseRead(wrappers, d)
     ELSE /\ UNCHANGED <<last, wrappers>>
          /\ disp' = [disp EXCEPT
                        ![d].st = "handler",
                        ![d].payload = payload,
                        ![d].arg = HandlerArg(disp[d].kind, payload)]
  /\ UNCHANGED <<hpc, harg, callback_wrapper, nativeReg, nsets, setlog,
                 nevents, seen>>

\* one step of capture thread d inside the trampoline
SustainedStep(d) ==
  \/ DispatchRead(d)
  \/ \E p \in Payloads : SustainedInvoke(d, p)
  \/ DispatchReturn(d)

\* the step of a set_callback call that is under way
SetCallbackProgress == SetCallbackLock \/ SetCallbackStore

\* ----------------------------------------------- what set_callback returns
\* no set_callback call has returned; a call is under way
NoSetReturn == Ok("-")
SetPending == Ok("pending")

RetInit == sret = NoSetReturn

\* self.callback_wrapper = register_input_callback(&self.ptr)?: the Err of
\* result_or(result, callback_wrapper) is returned at once, the Ok value is
\* stored and the call goes on
RegisterReturn(result) ==
  LET r == result_or(result, "wrapper") IN IF r.ok THEN SetPending ELSE r

\* set_callback with the value it returns: the registration's error from the
\* first step, Ok(()) from the step that stores the handler
SetCallbackReturning ==
  \/ \E h \in HandlerArgs, result \in NativeResults :
       SetCallbackRegisterWith(h, result) /\ sret' = RegisterReturn(result)
  \/ \E h \in HandlerArgs : SetCallbackReplace(h) /\ sret' = SetPending
  \/ SetCallbackLock /\ UNCHANGED sret
  \/ SetCallbackStore /\ sret' = Ok("()")

\* ======================================================================
\* The device-input object
\* ======================================================================

NoProvider ==
  [st |-> "none", rc |-> 0, ctx |-> "none", drops |-> 0, released |-> 0,
   uaf |-> FALSE]
NoNativeVideo == [enabled |-> FALSE, streaming |-> FALSE, provider |-> Null]
\* a return of a device call: the call, its Result, the native calls it made
\* in order, and the ProviderContext it boxed and dropped
NoDeviceReturn == [op |-> "-", out |-> Ok("-"), calls |-> <<>>, box |-> NoBox]

DeviceReturn(op, out, calls, box) ==
  [op |-> op, out |-> out, calls |-> calls, box |-> box]

\* DecklinkInputDevice::from
DeviceInit ==
  /\ dpc = "open"
  /\ video_active = FALSE
  /\ ptr_video_active = FALSE
  /\ allocator_provider = Null
  /\ providers = [p \in ProviderIds |-> NoProvider]
  /\ nativeVideo = NoNativeVideo
  /\ teardown = <<>>
  /\ dlast = NoDeviceReturn

FreshProvider == CHOOSE p \in ProviderIds :
                   /\ providers[p].st = "none"
                   /\ \A g \in ProviderIds : g < p => providers[g].st # "none"

\* ------------------------------------------- native provider handle counts
\* the release of one reference to a native provider handle: the release
\* trampoline reclaims the ProviderContext when the count reaches zero, and a
\* release of a handle that is already freed is a use after free
provider_handle_release(r) ==
  IF r.st # "alive" \/ r.rc <= 0
  THEN [r EXCEPT !.uaf = TRUE, !.ctx = "dropped", !.drops = @ + 1]
  ELSE IF r.rc = 1
  THEN [r EXCEPT !.rc = 0, !.st = "freed", !.ctx = "dropped", !.drops = @ + 1]
  ELSE [r EXCEPT !.rc = @ - 1]

\* cdecklink_video_buffer_allocator_provider_release called by the device
HostProviderRelease(P, p) ==
  [P EXCEPT ![p] = [provider_handle_release(@) EXCEPT !.released = @ + 1]]

\* the native input lets go of the provider it was enabled with
NativeProviderDrop(P, p) ==
  IF p = Null THEN P ELSE [P EXCEPT ![p] = provider_handle_release(@)]

\* the native input takes its own reference to the provider it is enabled with
NativeProviderHold(P, p) == [P EXCEPT ![p].rc = @ + 1]

\* mutant: a failed native create leaves the boxed ProviderContext behind
ProviderContextBox_Kept(result) == [made |-> 1, dropped |-> 0]

\* create_c_allocator_provider: the ProviderContext it boxes stays with the
\* handle on success and is dropped once, drop(Box::from_raw(pctx)), on
\* failure
ProviderContextBox(result) ==
  [made |-> 1, dropped |-> IF is_ok(result) THEN 0 ELSE 1]

\* create_c_allocator_provider: box the context and ask the native side for a
\* provider handle; on failure no handle exists
create_c_allocator_provider(P, p, result) ==
  IF is_ok(result)
  THEN [P EXCEPT ![p] = [NoProvider EXCEPT !.st = "alive", !.rc = 1,
                                           !.ctx = "live"]]
  ELSE P

\* ------------------------------------------------------- native video input
\* cdecklink_input_enable_video_input(_with_allocator_provider) returning
\* result: a successful enable makes p the provider in use
NativeEnable(N, p, result) ==
  IF is_ok(result) THEN [N EXCEPT !.enabled = TRUE, !.provider = p] ELSE N

\* cdecklink_input_disable_video_input returning result
NativeDisable(N, result) ==
  IF is_ok(result) THEN [N EXCEPT !.enabled = FALSE, !.provider = Null] ELSE N

\* cdecklink_input_start_streams returning result
NativeStart(N, result) ==
  IF is_ok(result) THEN [N EXCEPT !.streaming = TRUE] ELSE N

\* cdecklink_input_stop_streams returning result
NativeStop(N, result) ==
  IF is_ok(result) THEN [N EXCEPT !.streaming = FALSE] ELSE N

\* the provider handles after the native input went from state N to state M
NativeProviderRefs(P, N, M) ==
  IF M.provider = N.provider THEN P
  ELSE LET Q == NativeProviderDrop(P, N.provider)
       IN  IF M.provider = Null THEN Q ELSE NativeProviderHold(Q, M.provider)

\* ------------------------------------------------------------ device calls
DeviceIdle == hpc = "idle" /\ dpc = "open"

\* mutant: enable_video_input makes the native call without looking at the
\* shared flag
EnableVideoInput_Unguarded ==
  /\ DeviceIdle
  /\ \E result \in NativeResults :
       LET M == NativeEnable(nativeVideo, Null, result) IN
         /\ nativeVideo' = M
         /\ providers' = NativeProviderRefs(providers, nativeVideo, M)
         /\ ptr_video_active' = is_ok(result)
         /\ video_active' = (video_active \/ is_ok(result))
         /\ dlast' = DeviceReturn("enable_video_input",
                                  SdkErrorResult(result),
                                  <<"enable_video_input">>, NoBox)
  /\ UNCHANGED <<dpc, allocator_provider, teardown>>

\* enable_video_input
EnableVideoInput ==
  /\ DeviceIdle
  /\ IF ptr_video_active
     THEN /\ dlast' = DeviceReturn("enable_video_input", Err("ACCESSDENIED"),
                                   <<>>, NoBox)
          /\ UNCHANGED <<video_active, ptr_video_active, nativeVideo,
                         providers>>
     ELSE \E result \in NativeResults :
            LET M == NativeEnable(nativeVideo, Null, result) IN
              /\ nativeVideo' = M
              /\ providers' = NativeProviderRefs(providers, nativeVideo, M)
              /\ ptr_video_active' = is_ok(result)
              /\ video_active' = (video_active \/ is_ok(result))
              /\ dlast' = DeviceReturn("enable_video_input",
                                       SdkErrorResult(result),
                                       <<"enable_video_input">>, NoBox)
  /\ UNCHANGED <<dpc, allocator_provider, teardown>>

\* enable_video_input_with_allocator
EnableVideoInputWithAllocator ==
  /\ DeviceIdle
  /\ \E p \in ProviderIds : providers[p].st = "none"
  /\ IF ptr_video_active
     THEN /\ dlast' = DeviceReturn("enable_video_input_with_allocator",
                                   Err("ACCESSDENIED"), <<>>, NoBox)
          /\ UNCHANGED <<video_active, ptr_video_active, nativeVideo,
                         providers, allocator_provider>>
     ELSE \E created \in NativeResults :
            IF ~is_ok(created)
            THEN \* create_c_allocator_provider(provider)? returns early
                 /\ ptr_video_active' = TRUE
                 /\ dlast' = DeviceReturn("enable_video_input_with_allocator",
                                          Err(SdkErrorFrom(created)),
                                          <<"provider_create">>,
                                          ProviderContextBox(created))
                 /\ UNCHANGED <<video_active, nativeVideo, providers,
                                allocator_provider>>
            ELSE \E result \in NativeResults :
                   LET c_provider == FreshProvider
                       P == create_c_allocator_provider(providers, c_provider,
                                                        created)
                       M == NativeEnable(nativeVideo, c_provider, result)
                       Q == NativeProviderRefs(P, nativeVideo, M)
                   IN  /\ nativeVideo' = M
                       /\ ptr_video_active' = is_ok(result)
                       /\ IF is_ok(result)
                          THEN /\ providers' = Q
                               /\ allocator_provider' = c_provider
                               /\ video_active' = TRUE
                               /\ dlast' =
                                    DeviceReturn(
                                      "enable_video_input_with_allocator",
                                      Ok("-"),
                                      <<"provider_create", "enable_video_input">>,
                                      ProviderContextBox(created))
                          ELSE /\ providers' = HostProviderRelease(Q, c_provider)
                               /\ dlast' =
                                    DeviceReturn(
                                      "enable_video_input_with_allocator",
                                      Err(SdkErrorFrom(result)),
                                      <<"provider_create", "enable_video_input",
                                        "provider_release">>,
                                      ProviderContextBox(created))
                               /\ UNCHANGED <<video_active, allocator_provider>>
  /\ UNCHANGED <<dpc, teardown>>

\* mutant: disable_video_input gives up when the native call fails
DisableVideoInput_StopsOnFailure ==
  /\ DeviceIdle
  /\ \E result \in NativeResults :
       LET M == NativeDisable(nativeVideo, result)
           Q == NativeProviderRefs(providers, nativeVideo, M)
       IN  /\ nativeVideo' = M
           /\ video_active' = (video_active /\ ~is_ok(result))
           /\ ptr_video_active' = (ptr_video_active /\ ~is_ok(result))
           /\ IF allocator_provider # Null /\ is_ok(result)
              THEN /\ providers' = HostProviderRelease(Q, allocator_provider)
                   /\ allocator_provider' = Null
                   /\ dlast' = DeviceReturn("disable_video_input",
                                            SdkErrorResult(result),
                                            <<"disable_video_input",
                                              "provider_release">>, NoBox)
              ELSE /\ providers' = Q
                   /\ UNCHANGED allocator_provider
                   /\ dlast' = DeviceReturn("disable_video_input",
                                            SdkErrorResult(result),
                                            <<"disable_video_input">>, NoBox)
  /\ UNCHANGED <<dpc, teardown>>

\* disable_video_input
DisableVideoInput ==
  /\ DeviceIdle
  /\ \E result \in NativeResults :
       LET M == NativeDisable(nativeVideo, result)
           Q == NativeProviderRefs(providers, nativeVideo, M)
       IN  /\ nativeVideo' = M
           /\ video_active' = FALSE
           /\ ptr_video_active' = FALSE
           /\ IF allocator_provider # Null
              THEN /\ providers' = HostProviderRelease(Q, allocator_provider)
                   /\ allocator_provider' = Null
                   /\ dlast' = DeviceReturn("disable_video_input",
                                            SdkErrorResult(result),
                                            <<"disable_video_input",
                                              "provider_release">>, NoBox)
              ELSE /\ providers' = Q
                   /\ UNCHANGED allocator_provider
                   /\ dlast' = DeviceReturn("disable_video_input",
                                            SdkErrorResult(result),
                                            <<"disable_video_input">>, NoBox)
  /\ UNCHANGED <<dpc, teardown>>

\* start_streams
StartStreams ==
  /\ DeviceIdle
  /\ \E result \in NativeResults :
       /\ nativeVideo' = NativeStart(nativeVideo, result)
       /\ dlast' = DeviceReturn("start_streams", SdkErrorResult(result),
                                <<"start_streams">>, NoBox)
  /\ UNCHANGED <<dpc, video_active, ptr_video_active, allocator_provider,
                 providers, teardown>>

\* stop_streams
StopStreams ==
  /\ DeviceIdle
  /\ \E result \in NativeResults :
       /\ nativeVideo' = NativeStop(nativeVideo, result)
       /\ dlast' = DeviceReturn("stop_streams", SdkErrorResult(result),
                                <<"stop_streams">>, NoBox)
  /\ UNCHANGED <<dpc, video_active, ptr_video_active, allocator_provider,
                 providers, teardown>>

\* -------------------------------------------- Drop for DecklinkInputDevice
\* mutant: drop leaves video input enabled
DropStopDisable_Skipped ==
  /\ DeviceIdle
  /\ dpc' = "closing"
  /\ UNCHANGED <<video_active, ptr_video_active, allocator_provider, providers,
                 nativeVideo, teardown, dlast>>

\* drop, first part: if video is active, stop the streams and disable video
\* input, whatever the two native calls answer
DropStopDisable ==
  /\ DeviceIdle
  /\ dpc' = "closing"
  /\ IF video_active
     THEN \E stopped, disabled \in NativeResults :
            LET M == NativeDisable(NativeStop(nativeVideo, stopped), disabled)
            IN  /\ nativeVideo' = M
                /\ providers' = NativeProviderRefs(providers, nativeVideo, M)
                /\ ptr_video_active' = FALSE
                /\ teardown' = teardown \o <<"stop_streams",
                                             "disable_video_input">>
     ELSE UNCHANGED <<nativeVideo, providers, ptr_video_active, teardown>>
  /\ UNCHANGED <<video_active, allocator_provider, dlast>>

\* drop, second part: the native registration is cleared if a wrapper exists
DeviceDropClearCallback ==
  /\ dpc = "closing"
  /\ teardown' = IF callback_wrapper # Null
                 THEN Append(teardown, "clear_callback") ELSE teardown
  /\ DropClearCallback
  /\ UNCHANGED <<dpc, video_active, ptr_video_active, allocator_provider,
                 providers, nativeVideo, dlast>>

\* drop, third part: the wrapper is reclaimed
DeviceDropFreeWrapper ==
  /\ dpc = "closing"
  /\ teardown' = Append(teardown, "free_wrapper")
  /\ DropFreeWrapper
  /\ UNCHANGED <<dpc, video_active, ptr_video_active, allocator_provider,
                 providers, nativeVideo, dlast>>

\* mutant: drop forgets the allocator provider
DropReleaseProvider_Forgets ==
  /\ dpc = "closing" /\ hpc = "dropped"
  /\ dpc' = "closed"
  /\ allocator_provider' = Null
  /\ UNCHANGED <<providers, teardown>>
  /\ UNCHANGED <<video_active, ptr_video_active, nativeVideo, dlast>>

\* drop, last part: the allocator provider is released if one is stored
DropReleaseProvider ==
  /\ dpc = "closing" /\ hpc = "dropped"
  /\ dpc' = "closed"
  /\ IF allocator_provider # Null
     THEN /\ providers' = HostProviderRelease(providers, allocator_provider)
          /\ allocator_provider' = Null
          /\ teardown' = Append(teardown, "provider_release")
     ELSE UNCHANGED <<providers, allocator_provider, teardown>>
  /\ UNCHANGED <<video_active, ptr_video_active, nativeVideo, dlast>>

\* the native input calls the bridge of the provider it was enabled with,
\* while the device stores that provider
BridgeInUse ==
  allocator_provider # Null /\ nativeVideo.provider = allocator_provider

\* no native call into the bridge is in progress
BridgeIdle == \A t \in Threads : pc[t] = "idle"

\* no provider handle is alive and the bridge has not been released
NoProviderYet ==
  pctx = "live" /\ \A p \in ProviderIds : providers[p].st # "alive"

\* the release trampoline of the bridge runs in the step in which the count
\* of its provider handle reaches zero
BridgeTeardown ==
  IF \E p \in ProviderIds :
       providers[p].ctx = "live" /\ providers'[p].ctx = "dropped"
  THEN NativeProviderRelease
  ELSE UNCHANGED provVars

\* the calls that touch only the device's video state
DeviceStep ==
  \/ EnableVideoInput
  \/ EnableVideoInputWithAllocator
  \/ DisableVideoInput
  \/ StartStreams
  \/ StopStreams
  \/ DropStopDisable
  \/ DropReleaseProvider

\* set_callback on a device that is not being dropped
DeviceSetCallbackStep ==
  /\ dpc = "open"
  /\ \/ \E h \in HandlerArgs : SetCallbackRegister(h)
     \/ \E h \in HandlerArgs : SetCallbackReplace(h)
     \/ SetCallbackLock
     \/ SetCallbackStore
  /\ UNCHANGED devVars

\* ======================================================================
\* Specifications
\* ======================================================================

Init == ProvInit /\ InputInit /\ UtilInit /\ DeviceInit /\ LockInit /\ RetInit

\* the result adapter called with any status code
NextUtil ==
  \/ UtilStep /\ UNCHANGED <<provVars, inputVars, devVars, lockVars, retVars>>
  \/ UtilKindStep /\ UNCHANGED <<provVars, inputVars, devVars, lockVars, retVars>>

SpecUtil == Init /\ [][NextUtil]_vars

\* native threads call provider_get_allocator concurrently
Next ==
  \/ (\E t \in Threads : ThreadStep(t)) /\ UNCHANGED <<inputVars, utilVars, devVars, lockVars, retVars>>
  \/ NativeRefStep /\ UNCHANGED <<inputVars, utilVars, devVars, lockVars, retVars>>

Spec == Init /\ [][Next]_vars

\* the calls do not overlap (a thread runs only while the others are idle),
\* and the native side allocates buffers from the allocators it was handed
NextSeq ==
  \/ /\ \E t \in Threads :
          /\ \A u \in Threads \ {t} : pc[u] = "idle"
          /\ ThreadStep(t)
     /\ UNCHANGED <<inputVars, utilVars, devVars, lockVars, retVars>>
  \/ NativeRefStep /\ UNCHANGED <<inputVars, utilVars, devVars, lockVars, retVars>>
  \/ NativeBufferStep /\ UNCHANGED <<inputVars, utilVars, devVars, lockVars, retVars>>

InitUnobserved ==
  ProviderCreated /\ plast = Unobserved /\ InputInit /\ UtilInit
  /\ DeviceInit /\ LockInit /\ RetInit

SpecSeq == InitUnobserved /\ [][NextSeq]_vars

\* native threads call provider_get_allocator concurrently; taking and
\* dropping the cache's lock are steps of their own
NextLock ==
  \/ (\E t \in Threads : LockStep(t)) /\ UNCHANGED <<inputVars, utilVars, devVars, retVars>>
  \/ ReleaseLock /\ UNCHANGED <<inputVars, utilVars, devVars, retVars>>
  \/ LockedRelease /\ UNCHANGED <<inputVars, utilVars, devVars, retVars>>

SpecLock == InitUnobserved /\ [][NextLock]_vars

\* the native side calls the trampolines of the bridge one at a time and
\* looks at what they return
NextTramp ==
  \/ /\ \E t \in Threads :
          /\ FirstThread(t)
          /\ \A u \in Threads \ {t} : pc[u] = "idle"
          /\ ThreadStep(t)
     /\ UNCHANGED <<inputVars, utilVars, devVars, lockVars, retVars>>
  \/ NativeBufferStep /\ UNCHANGED <<inputVars, utilVars, devVars, lockVars, retVars>>
  \/ NativeBufferAccessStep /\ UNCHANGED <<inputVars, utilVars, devVars, lockVars, retVars>>

SpecTramp == Init /\ [][NextTramp]_vars

\* the host thread sets handlers and drops the device while the native
\* capture threads deliver events, several at a time
NextInput ==
  \/ HostStep /\ UNCHANGED <<provVars, utilVars, devVars, lockVars, retVars>>
  \/ /\ nevents < MaxOverlapped
     /\ \E d \in DispatchThreads, k \in EventKinds : DispatchBegin(d, k)
     /\ UNCHANGED <<provVars, utilVars, devVars, lockVars, retVars>>
  \/ (\E d \in DispatchThreads : DispatchStep(d)) /\ UNCHANGED <<provVars, utilVars, devVars, lockVars, retVars>>

SpecInput == Init /\ [][NextInput]_vars

\* the native side delivers one event at a time
NextInputSeq ==
  \/ HostStep /\ UNCHANGED <<provVars, utilVars, devVars, lockVars, retVars>>
  \/ /\ \A d \in DispatchThreads : ~Busy(d)
     /\ \E d \in DispatchThreads, k \in EventKinds : DispatchBegin(d, k)
     /\ UNCHANGED <<provVars, utilVars, devVars, lockVars, retVars>>
  \/ (\E d \in DispatchThreads : DispatchStep(d)) /\ UNCHANGED <<provVars, utilVars, devVars, lockVars, retVars>>

SpecInputSeq == Init /\ [][NextInputSeq]_vars

\* set_callback calls against frame delivery that never pauses
NextSustained ==
  \/ HostStep /\ UNCHANGED <<provVars, utilVars, devVars, lockVars, retVars>>
  \/ /\ \E d \in DispatchThreads : SustainedBegin(d)
     /\ UNCHANGED <<provVars, utilVars, devVars, lockVars, retVars>>
  \/ /\ \E d \in DispatchThreads : SustainedStep(d)
     /\ UNCHANGED <<provVars, utilVars, devVars, lockVars, retVars>>

\* every thread that can take a step is scheduled: each capture thread
\* inside a trampoline, and the host thread inside set_callback, which gets
\* the write lock if the lock is free again and again
FairThreads ==
  /\ SF_vars(SetCallbackProgress
               /\ UNCHANGED <<provVars, utilVars, devVars, lockVars, retVars>>)
  /\ \A d \in DispatchThreads :
       WF_vars(SustainedStep(d)
                 /\ UNCHANGED <<provVars, utilVars, devVars, lockVars, retVars>>)

SpecSustained == Init /\ [][NextSustained]_vars /\ FairThreads

\* the host thread sets handlers, looking at what set_callback returns, and
\* drops the device; the native side delivers events one at a time
NextSetCallback ==
  \/ SetCallbackReturning /\ UNCHANGED <<provVars, utilVars, devVars, lockVars>>
  \/ /\ DropClearCallback \/ DropFreeWrapper
     /\ UNCHANGED <<provVars, utilVars, devVars, lockVars, retVars>>
  \/ /\ \A d \in DispatchThreads : ~Busy(d)
     /\ \E d \in DispatchThreads, k \in EventKinds : DispatchBegin(d, k)
     /\ UNCHANGED <<provVars, utilVars, devVars, lockVars, retVars>>
  \/ /\ \E d \in DispatchThreads : DispatchStep(d)
     /\ UNCHANGED <<provVars, utilVars, devVars, lockVars, retVars>>

SpecSetCallback == Init /\ [][NextSetCallback]_vars

\* the host thread drives one device-input object: it enables and disables
\* video input, starts and stops the streams, sets handlers and drops it
NextDevice ==
  \/ DeviceStep /\ UNCHANGED <<provVars, inputVars, utilVars, lockVars, retVars>>
  \/ DeviceSetCallbackStep /\ UNCHANGED <<provVars, utilVars, lockVars, retVars>>
  \/ DeviceDropClearCallback /\ UNCHANGED <<provVars, utilVars, lockVars, retVars>>
  \/ DeviceDropFreeWrapper /\ UNCHANGED <<provVars, utilVars, lockVars, retVars>>

SpecDevice == Init /\ [][NextDevice]_vars

\* the bridging operations: the host tries to set a callback, then enables
\* video input with an allocator provider until the native input accepts one
\* and disables it when the shared flag is set (the enable and disable calls
\* never look at the callback; here they are made while none is registered);
\* provVars are the
\* bridge of the provider the native input accepted, which it asks, between
\* the host's calls, for allocators and buffers
NextCreate ==
  \/ /\ BridgeIdle
     /\ \/ /\ NoProviderYet /\ callback_wrapper = Null
           /\ EnableVideoInputWithAllocator
        \/ ptr_video_active /\ DisableVideoInput
     /\ BridgeTeardown
     /\ UNCHANGED <<inputVars, utilVars, lockVars, retVars>>
  \/ /\ dlast = NoDeviceReturn
     /\ DeviceSetCallbackStep
     /\ UNCHANGED <<provVars, utilVars, lockVars, retVars>>
  \/ /\ BridgeInUse
     /\ \E t \in Threads : FirstThread(t) /\ ThreadStep(t)
     /\ UNCHANGED <<inputVars, utilVars, devVars, lockVars, retVars>>
  \/ /\ BridgeInUse
     /\ \E h \in AllocIds : AllocatorAllocate(h)
     /\ UNCHANGED <<inputVars, utilVars, devVars, lockVars, retVars>>

SpecCreate == Init /\ [][NextCreate]_vars

\* ======================================================================
\* Claims about the provider bridge
\* ======================================================================

\* calls of provider_get_allocator past the host call for spec s
InFlight(s) ==
  Cardinality({t \in Threads : pc[t] \in {"wrap", "insert"} /\ tspec[t] = s})

CacheHolds(h) == pctx = "live" /\ h \in CachedHandles

\* C1 as stated: non-overlapping calls with an equal spec all return the same
\* handle, and the host provider's get_allocator has been invoked exactly once
\* for every spec for which a call succeeded.
C1_HostInvokedExactlyOnce ==
  \A s \in Specs :
    /\ Cardinality(hist.returned[s]) <= 1
    /\ hist.returned[s] # {} => hist.hostCalls[s] = 1

\* C1 amended: non-overlapping calls with an equal spec all return the same
\* handle (the cached one); the host provider is invoked once by every call
\* that failed and once by the first call that succeeded, and never again for
\* that spec afterwards.
C1_HostInvokedOncePerMiss ==
  \A s \in Specs :
    /\ Cardinality(hist.returned[s]) <= 1
    /\ hist.hostCalls[s] =
         hist.failCalls[s] + InFlight(s)
           + (IF hist.returned[s] # {} THEN 1 ELSE 0)
    /\ (hist.returned[s] # {} /\ pctx = "live") =>
         hist.returned[s] = {cache[s]}

\* C1 witness: a spec whose first call failed, whose second call succeeded
\* through the host provider and whose third call was a cache hit.
C1_Witness ==
  /\ ncalls = 3
  /\ \A t \in Threads : pc[t] = "idle"
  /\ \E s \in Specs :
       /\ hist.failCalls[s] = 1 /\ hist.hostCalls[s] = 2
       /\ hist.returned[s] # {}
       /\ \A o \in Specs \ {s} : hist.hostCalls[o] = 0

\* C2 as stated: in every reachable state, under concurrent calls, at most
\* one native allocator handle is alive per BufferSpec.
C2_AtMostOneHandlePerSpec ==
  \A s \in Specs :
    Cardinality({h \in AllocIds :
                   allocs[h].st = "alive" /\ allocs[h].spec = s}) <= 1

\* C3: the AllocatorContext of a handle is reclaimed by allocator_release at
\* most once, it is reclaimed exactly when the reference count is zero, and
\* the count is not zero while the cache or the native side holds the handle.
C3_TornDownExactlyAtZero ==
  \A h \in AllocIds :
    allocs[h].st # "none" =>
      /\ allocs[h].drops <= 1
      /\ (allocs[h].drops = 1) <=> (allocs[h].rc = 0)
      /\ (allocs[h].ctx = "live") <=> (allocs[h].rc > 0)
      /\ (CacheHolds(h) \/ nativeHeld[h] > 0) => allocs[h].rc > 0

\* C3 witness: after the provider was released one handle has been torn down
\* once while another is still alive under native references.
C3_Witness ==
  /\ pctx = "dropped"
  /\ \E h, g \in AllocIds :
       /\ allocs[h].st = "freed" /\ allocs[h].drops = 1
       /\ allocs[g].st = "alive" /\ nativeHeld[g] = MaxNativeRefs

\* the step in which provider_release runs
ProviderReleased == pctx = "live" /\ pctx' = "dropped"

\* C4: provider_release takes exactly one reference off every cached handle
\* and touches no other; a handle whose count was one is torn down in that
\* step, a handle with native references stays alive, and after the release
\* every handle the native side still holds has a live context (allocate on
\* it is valid) and every handle it no longer holds is torn down.
C4_ProviderReleaseDropsOneHold ==
  /\ [][ProviderReleased =>
          \A h \in AllocIds :
            IF h \in CachedHandles
            THEN /\ allocs'[h].rc = allocs[h].rc - 1
                 /\ allocs[h].rc = 1 =>
                      allocs'[h].ctx = "dropped" /\ allocs'[h].drops = 1
                 /\ allocs[h].rc > 1 =>
                      allocs'[h].ctx = "live" /\ allocs'[h].st = "alive"
            ELSE allocs'[h] = allocs[h]]_vars
  /\ [](pctx = "dropped" =>
          \A h \in AllocIds :
            /\ nativeHeld[h] > 0 =>
                 allocs[h].st = "alive" /\ allocs[h].ctx = "live"
            /\ nativeHeld[h] = 0 => allocs[h].st \in {"none", "freed"}
            /\ ~allocs[h].uaf)

\* C4 witness: the provider is released, one cached handle was torn down by
\* it, and a buffer was allocated afterwards from a surviving handle.
C4_Witness ==
  /\ pctx = "dropped"
  /\ \E h \in AllocIds : allocs[h].st = "freed"
  /\ \E b \in BufIds :
       /\ bufs[b].st = "alive" /\ bufs[b].pdead
       /\ allocs[bufs[b].alloc].st = "alive"

\* nothing is left for the native side to release
Quiescent ==
  /\ pctx = "dropped"
  /\ \A t \in Threads : pc[t] = "idle"
  /\ \A h \in AllocIds : nativeHeld[h] = 0
  /\ \A b \in BufIds : bufs[b].st # "alive"

\* host objects created through the bridge that are still alive
LiveHostObjects ==
  Cardinality({h \in AllocIds : allocs[h].ctx = "live"})
    + Cardinality({b \in BufIds : bufs[b].ctx = "live" \/ bufs[b].hostLive})
    + (IF pctx = "live" THEN 1 ELSE 0)

\* C5: the buffers allocated are pairwise distinct handles, each alive one
\* with its own live context and host buffer; once the native side has
\* released every buffer, every allocator reference and the provider, no
\* host object created through the bridge is left.
C5_DistinctBuffersNoLeak ==
  /\ \A b1, b2 \in BufIds :
       (bufs[b1].st # "none" /\ bufs[b2].st # "none" /\ b1 # b2) =>
         bufs[b1].host # bufs[b2].host
  /\ \A b \in BufIds :
       bufs[b].st = "alive" => bufs[b].ctx = "live" /\ bufs[b].hostLive
  /\ Quiescent => LiveHostObjects = 0

\* C5 witness: every buffer handle was allocated from one allocator and
\* released, then the allocator reference and the provider.
C5_Witness ==
  /\ Quiescent
  /\ \E h \in AllocIds :
       /\ allocs[h].st = "freed"
       /\ \A b \in BufIds : bufs[b].st = "freed" /\ bufs[b].alloc = h

\* C19 as stated: when calls for one spec miss the cache concurrently, the
\* result that does not stay in the cache is released, so that once the
\* provider is released and the native side has released every reference
\* and buffer, no allocator made by any of the calls is alive or keeps its
\* context.
C19_LoserReleasedNothingLeftAlive ==
  Quiescent =>
    \A h \in AllocIds : allocs[h].st # "alive" /\ allocs[h].ctx # "live"

\* the reference a miss in progress has created and not yet handed over
InProgress(h) ==
  IF \E t \in Threads : pc[t] = "insert" /\ th[t] = h THEN 1 ELSE 0

\* the step in which a call returns from the hit path
HitReturns == ncalls' = ncalls + 1 /\ pc' = pc

\* C21: when the calls do not overlap, the count of every alive handle is one
\* for the cache entry, if there is one, plus the references the native side
\* holds (plus the one a miss in progress is about to hand over); a handle
\* that is not alive has no holder left; a miss returns with the count at 2;
\* a hit adds exactly one to the count of the cached handle, touches no other
\* handle, and the handle it returns is alive.
C21_CountIsCachePlusNative ==
  /\ [](\A h \in AllocIds :
          /\ allocs[h].st = "alive" =>
               allocs[h].rc = (IF CacheHolds(h) THEN 1 ELSE 0)
                                + nativeHeld[h] + InProgress(h)
          /\ allocs[h].st # "alive" =>
               /\ allocs[h].rc = 0 /\ nativeHeld[h] = 0
               /\ ~CacheHolds(h) /\ InProgress(h) = 0
          /\ ~allocs[h].uaf)
  /\ [][/\ \A t \in Threads :
             (pc[t] = "insert" /\ pc'[t] = "idle") =>
               /\ allocs'[th[t]].rc = 2
               /\ cache'[tspec[t]] = th[t]
        /\ HitReturns =>
             \E h \in CachedHandles :
               /\ allocs[h].st = "alive" /\ allocs[h].ctx = "live"
               /\ allocs' = [allocs EXCEPT ![h].rc = @ + 1]
               /\ nativeHeld' = [nativeHeld EXCEPT ![h] = @ + 1]
               /\ cache' = cache]_vars

\* C21 witness: a miss and two hits for one spec, one reference given back:
\* the cached handle has count 3 under two native references.
C21_Witness ==
  /\ ncalls = 3 /\ \A t \in Threads : pc[t] = "idle"
  /\ \E h \in AllocIds :
       /\ CacheHolds(h) /\ allocs[h].rc = 3 /\ nativeHeld[h] = 2
       /\ \A g \in AllocIds \ {h} : allocs[g].st = "none"

\* C23 as stated: every context boxed for an allocator or a buffer is
\* reclaimed exactly once: never twice, and once everything the native side
\* was handed has been released and the provider is released, the context of
\* every handle that was created has been reclaimed by its release
\* trampoline.
C23_EveryContextReclaimedOnce ==
  /\ \A h \in AllocIds :
       /\ allocs[h].drops <= 1
       /\ allocs[h].ctx = "dropped" <=> allocs[h].drops = 1
  /\ \A b \in BufIds : bufs[b].ctx = "dropped" <=> bufs[b].st = "freed"
  /\ Quiescent =>
       /\ \A h \in AllocIds : allocs[h].st # "none" => allocs[h].drops = 1
       /\ \A b \in BufIds : bufs[b].st # "none" => bufs[b].ctx = "dropped"

\* thread t is inside the host provider's get_allocator or create_c_allocator
Creating(t) == pc[t] \in {"host", "wrap"}

\* C22: a thread that holds the cache's mutex is in the lookup or at the
\* insert, never inside the host provider's get_allocator or the wrapping of
\* its result; provider_release holds it only with no call in progress; and
\* while one thread is creating an allocator, another thread that wants to
\* look a spec up can take the lock at once.
C22_NoLockAcrossCreation ==
  /\ \A t \in Threads : Creating(t) => mutex # t
  /\ \A t \in Threads : mutex = t => pc[t] \in {"idle", "insert"}
  /\ mutex = "release" => \A t \in Threads : pc[t] = "idle"
  /\ \A t, u \in Threads :
       (Creating(t) /\ u # t /\ pc[u] = "idle" /\ mutex # u
          /\ ncalls < MaxCalls) => ENABLED LookupLock(u)

\* C22 witness: one thread is wrapping the allocator the host made for spec
\* A while the other, having taken the lock after it, holds the mutex.
C22_Witness ==
  /\ pc["t1"] = "wrap" /\ tspec["t1"] = "A"
  /\ mutex = "t2" /\ pc["t2"] = "insert" /\ tspec["t2"] = "B"

\* ======================================================================
\* Claims about the input event bridge
\* ======================================================================

\* thread d has read the slot and has not returned yet
PastRead(d) == disp[d].st \in {"locked", "handler"}

\* the content of the slot after the v-th completed set_callback
InstalledAt(v) == IF v = 0 THEN None ELSE setlog[v]

\* the step in which thread d leaves the if-let header of its trampoline
LeavesHeader(d) == disp[d].st = "locked" /\ disp'[d].st # "locked"

\* the step in which thread d returns to the native side
Returns(d) == Busy(d) /\ disp'[d].st = "idle"

\* C6: the frame-arrived trampoline hands None to the handler when the frame
\* pointer is null; it returns S_OK (0) when the handler answered true and
\* S_FALSE (1) when it answered false; finding the slot empty it calls nothing
\* and returns S_OK (0).
C6_FrameArrivedForwardsResult ==
  /\ [](\A d \in DispatchThreads :
          (disp[d].st = "handler" /\ disp[d].kind = "frame"
             /\ disp[d].payload = "null") => disp[d].arg = "NoFrame")
  /\ [][\A d \in DispatchThreads :
          (Returns(d) /\ disp[d].kind = "frame") =>
            /\ last'.ev = disp[d].ev
            /\ seen' = seen
            /\ IF disp[d].st = "handler"
               THEN /\ last'.called
                    /\ last'.hret => last'.ret = 0
                    /\ ~last'.hret => last'.ret = 1
               ELSE /\ disp[d].obs = None
                    /\ ~last'.called
                    /\ last'.ret = 0]_vars

\* C6 witness: a frame event whose handler answered false was returned with
\* S_FALSE, and the handler is now running on a null frame pointer with None.
C6_Witness ==
  /\ last.called /\ ~last.hret /\ last.ret = S_FALSE
  /\ \E d \in DispatchThreads :
       /\ disp[d].st = "handler" /\ disp[d].kind = "frame"
       /\ disp[d].payload = "null" /\ disp[d].arg = "NoFrame"
       /\ disp[d].ev = last.ev + 1

\* C7: while set_callback writes the slot no trampoline holds it for reading,
\* and what a trampoline has read from the slot of a live wrapper is either
\* the empty slot or a handler that a completed set_callback installed, never
\* a partially written value.
C7_NoTornRead ==
  /\ \A w \in WrapIds : ~(wrappers[w].writer /\ wrappers[w].readers > 0)
  /\ \A d \in DispatchThreads :
       (PastRead(d) /\ ~disp[d].uaf) =>
         /\ disp[d].obs # Torn
         /\ \/ disp[d].obs = None
            \/ \E i \in 1..Len(setlog) : setlog[i] = disp[d].obs

\* C7 witness: a replacement is in the middle of writing the slot of the
\* registered wrapper while a trampoline that was called with that wrapper
\* waits for the read lock, a second event having been handled already.
C7_Witness ==
  /\ hpc = "writing" /\ Len(setlog) >= 1
  /\ wrappers[callback_wrapper].handler = Torn
  /\ last.called
  /\ \E d \in DispatchThreads :
       disp[d].st = "entered" /\ disp[d].ctx = callback_wrapper

\* C8: a trampoline called after the k-th set_callback returned reads the slot
\* as that call or a later one left it, never as an earlier one left it, and
\* calls what it read; and as long as it is in its if-let block no further
\* set_callback has returned, so the handler being executed is the one
\* installed.
C8_ReplacementLinearizable ==
  \A d \in DispatchThreads :
    (PastRead(d) /\ ~disp[d].uaf) =>
      /\ disp[d].bv <= disp[d].ov
      /\ disp[d].obs = InstalledAt(disp[d].ov)
      /\ disp[d].ov = Len(setlog)
      /\ wrappers[disp[d].ctx].st = "alive" =>
           wrappers[disp[d].ctx].handler = disp[d].obs

\* C8 witness: a trampoline called after set_callback(h1) returned executes
\* h1 while the next set_callback waits for the write lock.
C8_Witness ==
  /\ hpc = "write_lock" /\ Len(setlog) = 1
  /\ \E d \in DispatchThreads :
       /\ disp[d].st = "handler" /\ disp[d].guard
       /\ disp[d].bv = 1 /\ disp[d].obs = setlog[1] /\ disp[d].obs # None

\* C9: with events delivered one at a time, a trampoline that finds a handler
\* in the slot calls it exactly once and one that finds the slot empty calls
\* nothing, no other step calls a handler, and the calls are made in delivery
\* order; an event delivered after set_callback(None) returned finds nothing
\* to call, and once the device is dropped no event is delivered.
C9_OneCallbackPerEventInOrder ==
  /\ [][/\ \A d \in DispatchThreads :
             LeavesHeader(d) =>
               seen' = IF disp[d].obs = None THEN seen
                       ELSE Append(seen, <<disp[d].obs, disp[d].ev>>)
        /\ (\A d \in DispatchThreads : ~LeavesHeader(d)) => seen' = seen
        /\ (hpc \in {"drop_free", "dropped"}) => nevents' = nevents]_vars
  /\ [](/\ \A i, j \in 1..Len(seen) : i < j => seen[i][2] < seen[j][2]
        /\ \A d \in DispatchThreads :
             (PastRead(d) /\ ~disp[d].uaf /\ disp[d].ov = disp[d].bv
                /\ InstalledAt(disp[d].bv) = None) => disp[d].obs = None)

\* C9 witness: a handler was installed, two events were delivered and it was
\* called for the first and then for the second, it was deregistered, and the
\* third event was returned without a call.
C9_Witness ==
  /\ Len(setlog) = 2 /\ setlog[1] # None /\ setlog[2] = None
  /\ seen = <<<<setlog[1], 1>>, <<setlog[1], 2>>>>
  /\ nevents = 3
  /\ last.ev = 3 /\ ~last.called

\* C24: the format-changed trampoline returns 0 whatever happened; it calls
\* the handler it found in the slot once and calls nothing when the slot is
\* empty; the display mode it passes is the Unknown sentinel when the mode
\* pointer is null or the mode value is not a known identifier, and the mode
\* otherwise.
C24_FormatChangedAlwaysOk ==
  /\ [](\A d \in DispatchThreads :
          (disp[d].st = "handler" /\ disp[d].kind = "format") =>
            /\ disp[d].payload \in {"null", "bad"} => disp[d].arg = "Unknown"
            /\ disp[d].payload = "valid" => disp[d].arg = "Mode"
            /\ disp[d].obs # None)
  /\ [][\A d \in DispatchThreads :
          /\ (Returns(d) /\ disp[d].kind = "format") =>
               /\ last'.ret = S_OK
               /\ last'.ev = disp[d].ev
               /\ last'.called <=> disp[d].st = "handler"
               /\ last'.called <=> disp[d].obs # None
               /\ seen' = seen
          /\ (LeavesHeader(d) /\ disp[d].kind = "format") =>
               seen' = IF disp[d].obs = None THEN seen
                       ELSE Append(seen, <<disp[d].obs, disp[d].ev>>)]_vars

\* C24 witness: a format change with an unknown mode value was handed to the
\* handler as Unknown and returned with 0; the next one, with a null mode
\* pointer, is in the handler with Unknown as well.
C24_Witness ==
  /\ last.ev = 1 /\ last.called /\ last.ret = S_OK
  /\ seen = <<<<Handler(1), 1>>, <<Handler(1), 2>>>>
  /\ \E d \in DispatchThreads :
       /\ disp[d].st = "handler" /\ disp[d].kind = "format"
       /\ disp[d].payload = "null" /\ disp[d].arg = "Unknown"
       /\ disp[d].ev = 2

\* the device-input object is Registered while the native side holds its
\* wrapper as callback context
Registered == nativeReg # Null

\* set_callback's native registration succeeded and the call goes on to the
\* slot
Registers == hpc = "idle" /\ hpc' = "write_lock" /\ callback_wrapper = Null

\* a set_callback call on a device that has its wrapper already
Replaces == hpc \in {"write_lock", "writing"} \/
            (hpc = "idle" /\ hpc' = "write_lock" /\ callback_wrapper # Null)

\* C25: the registration changes only from Unregistered to Registered at the
\* first set_callback whose native registration succeeds and from Registered
\* to Unregistered at teardown; a set_callback on a registered device leaves
\* the native registration and the wrapper in place and changes only the
\* slot; nothing registers again after teardown.
C25_RegistrationStateMachine ==
  [][/\ (Registered' # Registered \/ nativeReg' # nativeReg) =>
          \/ /\ ~Registered /\ Registers
             /\ \A w \in WrapIds : ~wrappers[w].everReg
             /\ nativeReg' = callback_wrapper'
             /\ wrappers'[nativeReg'].st = "alive"
          \/ /\ Registered /\ ~Registered'
             /\ hpc = "idle" /\ hpc' = "drop_free"
     /\ (Replaces /\ ~Registers) =>
          /\ nativeReg' = nativeReg
          /\ callback_wrapper' = callback_wrapper
          /\ \A w \in WrapIds :
               /\ wrappers'[w].st = wrappers[w].st
               /\ wrappers'[w].everReg = wrappers[w].everReg
               /\ w # callback_wrapper => wrappers'[w] = wrappers[w]
     /\ hpc \in {"drop_free", "dropped"} =>
          /\ ~Registered'
          /\ hpc' \in {"drop_free", "dropped"}]_vars

\* C25 witness: the device registered once with an empty slot, a second
\* set_callback put a handler there, and the device was torn down.
C25_Witness ==
  /\ hpc = "dropped" /\ ~Registered
  /\ Len(setlog) = 2 /\ setlog[1] = None /\ setlog[2] # None
  /\ \E w \in WrapIds : wrappers[w].everReg /\ wrappers[w].st = "freed"

\* C26: with every thread scheduled fairly, a set_callback call that waits
\* for the write lock on the slot gets it and returns, however the
\* frame-arrived dispatches keep taking the read lock.
C26_SetCallbackNotStarved == (hpc = "write_lock") ~> (hpc = "idle")

\* C10: a wrapper is freed only when the native side does not have it
\* registered; the drop of the device issues the deregistration while the
\* wrapper is alive and frees it in a later step; a wrapper whose
\* registration failed goes from created to freed in one step in which the
\* registration is unchanged, and it was never handed to a trampoline.
C10_DeregisteredBeforeFreed ==
  /\ [][/\ \A w \in WrapIds :
             (wrappers[w].st = "alive" /\ wrappers'[w].st = "freed") =>
               nativeReg = Null /\ nativeReg' = Null
        /\ (nativeReg # Null /\ nativeReg' = Null) =>
             /\ wrappers[nativeReg].st = "alive"
             /\ wrappers'[nativeReg].st = "alive"
        /\ \A w \in WrapIds :
             (wrappers[w].st = "none" /\ wrappers'[w].st = "freed") =>
               ~wrappers'[w].everReg /\ nativeReg' = nativeReg]_vars
  /\ [](\A w \in WrapIds :
          /\ wrappers[w].st = "freed" => nativeReg # w
          /\ ~wrappers[w].everReg =>
               \A d \in DispatchThreads : disp[d].ctx # w)

\* C10 witness: the device was dropped after one registration had failed and
\* another had succeeded: both wrappers are freed, one never registered.
C10_Witness ==
  /\ hpc = "dropped" /\ nativeReg = Null
  /\ \E w, g \in WrapIds :
       /\ wrappers[w].st = "freed" /\ wrappers[w].everReg
       /\ wrappers[g].st = "freed" /\ ~wrappers[g].everReg

\* C11 as stated: no trampoline reads the handler slot of a wrapper whose
\* storage has been reclaimed, whatever the interleaving of the drop of the
\* device with the capture threads.
C11_NoReadOfReclaimedWrapper ==
  \A d \in DispatchThreads : ~disp[d].uaf

\* the step in which a set_callback call starts
SetCallbackCalled == nsets' = nsets + 1

\* C12: at most one wrapper is alive and at most one registration has ever
\* succeeded; the native side has no other wrapper registered than the one
\* the device holds; a set_callback that finds callback_wrapper non-null
\* leaves the registration, the pointer and every wrapper's storage as they
\* are and goes on to write the slot.
C12_RegisteredAtMostOnce ==
  /\ [](/\ Cardinality({w \in WrapIds : wrappers[w].st = "alive"}) <= 1
        /\ Cardinality({w \in WrapIds : wrappers[w].everReg}) <= 1
        /\ nativeReg # Null => nativeReg = callback_wrapper
        /\ callback_wrapper # Null => wrappers[callback_wrapper].st = "alive")
  /\ [][(SetCallbackCalled /\ callback_wrapper # Null) =>
          /\ nativeReg' = nativeReg
          /\ callback_wrapper' = callback_wrapper
          /\ \A w \in WrapIds : wrappers'[w].st = wrappers[w].st
          /\ hpc' = "write_lock"]_vars

\* C12 witness: two set_callback calls have completed on the one wrapper that
\* the first of them registered.
C12_Witness ==
  /\ hpc = "idle" /\ Len(setlog) = 2
  /\ callback_wrapper # Null /\ nativeReg = callback_wrapper
  /\ Cardinality({w \in WrapIds : wrappers[w].st # "none"}) = 1

\* ======================================================================
\* Claims about the result adapter
\* ======================================================================

\* the eleven codes SdkError has a kind for
RecognisedCodes == {1, -65535, -1, -2, -3, -4, -5, -6, -7, -8, -9}

\* C13: is_ok answers true for the code 0 and for no other; result, result_or
\* and result_or_else return Ok with the success value (the default, the
\* value given, the value the closure makes) when the code is 0 and an Err for
\* every other code, the code 1 included.
C13_SuccessIsExactlyZero ==
  /\ ucall.fn = "is_ok" => (ucall.out.val <=> ucall.value = 0)
  /\ ucall.fn \in {"result", "result_or", "result_or_else"} =>
       /\ ucall.out.ok <=> ucall.value = 0
       /\ ucall.out.ok => ucall.out.err = "-"
       /\ ~ucall.out.ok => ucall.out.err \in SdkErrors
  /\ ucall.fn = "result" /\ ucall.out.ok => ucall.out.val = "Default"
  /\ ucall.fn = "result_or" /\ ucall.out.ok => ucall.out.val = "def"
  /\ ucall.fn = "result_or_else" /\ ucall.out.ok => ucall.out.val = "made"

\* C13 witness: result_or was called with the benign-false code 1 and
\* returned Err(FALSE).
C13_Witness ==
  /\ ucall.fn = "result_or" /\ ucall.value = 1
  /\ ~ucall.out.ok /\ ucall.out.err = "FALSE"

\* C14: SdkError::from returns a kind for every code; for a recognised code
\* it is the kind whose code() is that code, for every other code it is FALSE.
C14_FromIsTotal ==
  /\ ucall.fn = "from" =>
       /\ ucall.out.ok /\ ucall.out.val \in SdkErrors
       /\ ucall.value \in RecognisedCodes =>
            SdkErrorCode(ucall.out.val) = ucall.value
       /\ ucall.value \notin RecognisedCodes => ucall.out.val = "FALSE"
  /\ ucall.fn = "from_code" =>
       ucall.out.val = IF ucall.value \in RecognisedCodes
                       THEN ucall.value ELSE 1

\* C14 witness: from was called with a code no kind has (0x0000_0007) and
\* returned FALSE.
C14_Witness ==
  /\ ucall.fn = "from" /\ ucall.value = 7
  /\ ucall.out.val = "FALSE"

\* C34: the code of a kind is not zero and is the code of no other kind, and
\* SdkError::from gives the kind back from its code; a result built from the
\* code of a kind is never Ok.
C34_CodesDistinctAndRoundTrip ==
  /\ ucall.fn = "code" =>
       /\ ucall.value \in SdkErrors
       /\ ucall.out.val # S_OK
       /\ ~is_ok(ucall.out.val)
       /\ ~SdkErrorResult(ucall.out.val).ok
       /\ \A o \in SdkErrors \ {ucall.value} : SdkErrorCode(o) # ucall.out.val
  /\ ucall.fn = "code_from" =>
       /\ ucall.value \in SdkErrors
       /\ ucall.out.val = ucall.value

\* C34 witness: from(code()) was applied to UNEXPECTED, the kind whose code
\* lies far from the others, and gave UNEXPECTED.
C34_Witness ==
  /\ ucall.fn = "code_from" /\ ucall.value = "UNEXPECTED"
  /\ ucall.out.val = "UNEXPECTED"
  /\ SdkErrorCode(ucall.out.val) = -65535
  /\ Cardinality({SdkErrorCode(e) : e \in SdkErrors}) = 11

\* ======================================================================
\* Claims about what the trampolines of the provider bridge return
\* ======================================================================

\* the trampolines the native side calls on buffers, allocators, provider
Trampolines ==
  {"get_bytes", "start_access", "end_access", "allocate", "get_allocator"}

\* the step in which thread t returns a failure from provider_get_allocator
FailureReturns(t) == pc[t] \in {"host", "wrap"} /\ pc'[t] = "idle"

\* C15 as stated: every trampoline return was preceded by exactly one call of
\* the host operation, it is 0 only if that operation succeeded, and after a
\* host error it is the code of that error.
C15_HostCalledExactlyOnce ==
  plast.op \in Trampolines =>
    /\ plast.host = 1
    /\ plast.ret = 0 => plast.herr = "ok"
    /\ plast.herr \in SdkErrors => plast.ret = SdkErrorDiscriminant(plast.herr)

\* C15 amended: a trampoline calls its host operation once and never again
\* in the same native call, except provider_get_allocator on a cache hit,
\* which calls no host operation and returns 0 with the cached handle; a
\* return of 0 means no host operation failed, and after a host error the
\* return is the code of that error and the output pointer is not written.
\* Every provider_get_allocator that misses the cache invokes the host
\* provider in one step, and it is invoked in no other step.
C15_HostCalledOnceUnlessCacheHit ==
  /\ [](plast.op \in Trampolines =>
          /\ plast.host \in {0, 1}
          /\ plast.host = 0 =>
               /\ plast.op = "get_allocator"
               /\ plast.ret = 0 /\ plast.wrote /\ plast.herr = "-"
          /\ plast.host = 1 => plast.herr \in SdkErrors \cup {"ok"}
          /\ plast.ret = 0 => plast.herr \in {"ok", "-"}
          /\ plast.herr \in SdkErrors =>
               /\ plast.ret = SdkErrorDiscriminant(plast.herr)
               /\ ~plast.wrote)
  /\ [][/\ \A s \in Specs :
             hist'.hostCalls[s] # hist.hostCalls[s] =>
               /\ hist'.hostCalls[s] = hist.hostCalls[s] + 1
               /\ \E t \in Threads :
                    pc[t] = "host" /\ pc'[t] # "host" /\ tspec[t] = s
        /\ \A t \in Threads :
             (pc[t] = "host" /\ pc'[t] # "host") =>
               hist'.hostCalls[tspec[t]] = hist.hostCalls[tspec[t]] + 1
        /\ (ncalls' = ncalls + 1 /\ pc' = pc) =>
             /\ plast'.host = 0
             /\ hist'.hostCalls = hist.hostCalls]_vars

\* C15 witness: the last call failed in the host buffer with OUTOFMEMORY and
\* returned its code, after provider_get_allocator was answered from the
\* cache without a host call.
C15_Witness ==
  /\ plast.op \in BufferOps
  /\ plast.herr = "OUTOFMEMORY" /\ plast.ret = -2 /\ plast.host = 1
  /\ \E s \in Specs : hist.hostCalls[s] = 1 /\ ncalls >= 2
  /\ \A s \in Specs : hist.hostCalls[s] + hist.failCalls[s] <= 1

\* C16: a provider_get_allocator that fails returns a code other than 0 and
\* does not write the output pointer; the step in which it returns changes
\* neither the cache nor any allocator handle (its reference count included)
\* nor what the native side holds; the host provider was asked by this call
\* and, the cache being as it was, is asked again by a later call that
\* misses.
C16_FailureLeavesCacheUntouched ==
  [][\A t \in Threads :
       FailureReturns(t) =>
         /\ plast'.op = "get_allocator"
         /\ plast'.ret # 0 /\ ~plast'.wrote
         /\ cache' = cache
         /\ allocs' = allocs
         /\ nativeHeld' = nativeHeld
         /\ hist'.returned = hist.returned
         /\ hist'.failCalls[tspec[t]] = hist.failCalls[tspec[t]] + 1]_vars

\* C16 witness: a call for a spec failed when wrapping the host allocator,
\* nothing was cached, and the next call for that spec is at the host
\* provider again.
C16_Witness ==
  \E t \in Threads :
    /\ pc[t] = "host"
    /\ hist.failCalls[tspec[t]] = 1 /\ hist.hostCalls[tspec[t]] = 1
    /\ cache[tspec[t]] = Null
    /\ plast.op = "get_allocator" /\ plast.herr = "ok" /\ plast.ret # 0

\* the step in which register_input_callback, called by set_callback, fails
RegistrationFails ==
  nsets' = nsets + 1 /\ callback_wrapper = Null /\ callback_wrapper' = Null

\* the state after a failed enable_video_input_with_allocator
EnableWithAllocatorFailed ==
  dlast.op = "enable_video_input_with_allocator" /\ ~dlast.out.ok

\* C17: a bridging operation that returns an error has torn down, once, every
\* object it created.  The bridge trampolines and create_c_allocator_provider
\* dropped every context they boxed and wrote no handle (a context whose
\* handle was created is left to the handle's release); a failed
\* provider_get_allocator left cache and handles as they were and a failed
\* allocate left the buffer handles as they were; a failed
\* enable_video_input_with_allocator released the provider handle it created
\* (one release, one teardown of its ProviderContext) and stored nothing in
\* the device; a failed registration freed the wrapper it boxed and left the
\* device's pointer null and the native registration as it was.  No live
\* object is left that neither the device, the cache, the native side nor a
\* call still in progress refers to.
C17_FailureTearsDownWhatWasCreated ==
  /\ [](/\ plast.ret # S_OK =>
             plast.box.dropped = plast.box.made /\ ~plast.wrote
        /\ (EnableWithAllocatorFailed /\ Len(dlast.calls) = 1) =>
             dlast.box = [made |-> 1, dropped |-> 1]
        /\ (EnableWithAllocatorFailed /\ Len(dlast.calls) > 1) =>
             /\ dlast.box = [made |-> 1, dropped |-> 0]
             /\ dlast.calls[Len(dlast.calls)] = "provider_release"
        /\ \A p \in ProviderIds :
             /\ providers[p].drops <= 1 /\ ~providers[p].uaf
             /\ providers[p].ctx = "live" <=> providers[p].st = "alive"
             /\ providers[p].st = "alive" =>
                  p = allocator_provider \/ p = nativeVideo.provider
        /\ \A w \in WrapIds :
             wrappers[w].st = "alive" => w = callback_wrapper
        /\ \A h \in AllocIds :
             allocs[h].ctx = "live" =>
               \/ CacheHolds(h) \/ nativeHeld[h] > 0
               \/ \E t \in Threads : pc[t] = "insert" /\ th[t] = h
        /\ \A b \in BufIds : bufs[b].ctx = "live" => bufs[b].st = "alive")
  /\ [][/\ \A t \in Threads :
             FailureReturns(t) =>
               cache' = cache /\ allocs' = allocs /\ plast'.ret # S_OK
        /\ (plast'.op = "allocate" /\ plast'.ret # S_OK /\ plast' # plast) =>
             bufs' = bufs
        /\ EnableWithAllocatorFailed' =>
             /\ allocator_provider' = allocator_provider
             /\ video_active' = video_active
             /\ \A p \in ProviderIds :
                  (providers[p].st = "none" /\ providers'[p].st # "none") =>
                    /\ providers'[p].st = "freed"
                    /\ providers'[p].ctx = "dropped"
                    /\ providers'[p].drops = 1
                    /\ providers'[p].released = 1
                    /\ p # nativeVideo'.provider
        /\ RegistrationFails =>
             /\ wrappers'[FreshWrapper].st = "freed"
             /\ nativeReg' = nativeReg
             /\ setlog' = setlog]_vars

\* C17 witness: a registration failed and its wrapper was freed, an enable
\* with a provider failed in the native enable call and its provider handle
\* was released and torn down, a later enable succeeded, and the bridge of
\* that provider failed to wrap a host allocator and dropped the context.
C17_Witness ==
  /\ callback_wrapper = Null /\ wrappers[1].st = "freed"
  /\ providers[1].st = "freed" /\ providers[1].released = 1
  /\ allocator_provider = 2 /\ providers[2].st = "alive"
  /\ plast.op = "get_allocator" /\ plast.herr = "ok" /\ plast.ret # S_OK
  /\ plast.box = [made |-> 1, dropped |-> 1]
  /\ \A h \in AllocIds : allocs[h].st = "none"

\* C18: when allocator_allocate got a buffer from the host allocator and the
\* native create call failed, the boxed context with the host buffer in it
\* was dropped once, the output pointer was not written, no buffer handle
\* came to exist, and the code returned is the code of the SdkError made
\* from the native result.
C18_WrapFailureDropsBuffer ==
  /\ [](plast.op = "allocate" /\ plast.herr = "ok" /\ plast.native # 0 =>
          /\ plast.box = [made |-> 1, dropped |-> 1]
          /\ ~plast.wrote
          /\ plast.ret = SdkErrorCode(SdkErrorFrom(plast.native))
          /\ plast.ret # 0)
  /\ [][(plast'.op = "allocate" /\ plast'.native # 0 /\ plast' # plast) =>
          bufs' = bufs]_vars

\* C18 witness: allocate failed in the native create call with a code SdkError
\* does not know, and returned the code of FALSE.
C18_Witness ==
  /\ plast.op = "allocate" /\ plast.herr = "ok" /\ plast.native = 7
  /\ plast.ret = 1 /\ plast.box.dropped = 1
  /\ \A b \in BufIds : bufs[b].st = "none"

\* ======================================================================
\* Claims about the device-input object
\* ======================================================================

\* the place of a teardown step in the order drop is to follow
TeardownRank(step) ==
  CASE step = "stop_streams" -> 1
    [] step = "disable_video_input" -> 2
    [] step = "clear_callback" -> 3
    [] step = "free_wrapper" -> 4
    [] step = "provider_release" -> 5

TeardownDid(step) == \E i \in 1..Len(teardown) : teardown[i] = step

\* the step of drop in which the device releases its provider reference
DropReleasesProvider ==
  dpc = "closing" /\ \E p \in ProviderIds :
                       providers'[p].released = providers[p].released + 1

\* C20: drop performs its steps in the order stop streams, disable video
\* input, clear the callback registration, reclaim the wrapper, release the
\* allocator provider; the first two are made exactly when video is active,
\* the wrapper is reclaimed only after its registration was cleared, and the
\* provider reference is released only after video input was disabled and
\* while no wrapper is registered or alive.
C20_TeardownInOrder ==
  /\ [](/\ \A i, j \in 1..Len(teardown) :
             i < j => TeardownRank(teardown[i]) < TeardownRank(teardown[j])
        /\ dpc # "open" =>
             /\ TeardownDid("stop_streams") <=> video_active
             /\ TeardownDid("disable_video_input") <=> video_active
        /\ TeardownDid("free_wrapper") => TeardownDid("clear_callback")
        /\ TeardownDid("provider_release") =>
             TeardownDid("disable_video_input")
        /\ dpc = "closed" =>
             /\ allocator_provider = Null /\ callback_wrapper = Null
             /\ nativeReg = Null
             /\ TeardownDid("clear_callback") <=> TeardownDid("free_wrapper"))
  /\ [][DropReleasesProvider =>
          /\ TeardownDid("disable_video_input")
          /\ nativeReg = Null /\ callback_wrapper = Null
          /\ \A w \in WrapIds : wrappers[w].st # "alive"
          /\ teardown' = Append(teardown, "provider_release")]_vars

\* C20 witness: a device with video active, a registered callback and an
\* allocator provider was dropped and performed all five steps.
C20_Witness ==
  /\ dpc = "closed"
  /\ teardown = <<"stop_streams", "disable_video_input", "clear_callback",
                  "free_wrapper", "provider_release">>
  /\ \E p \in ProviderIds : providers[p].released = 1

\* the host gives up the allocator-provider reference the device has stored
HostReleasesProvider == allocator_provider # Null /\ allocator_provider' = Null

\* C27: the host releases its allocator-provider reference, in
\* disable_video_input or at teardown, only when the streams that
\* start_streams started have been stopped.
C27_ProviderReleasedAfterStop ==
  [][HostReleasesProvider => ~nativeVideo.streaming]_vars

\* start_streams made the native input start streaming
StreamsStarted == ~nativeVideo.streaming /\ nativeVideo'.streaming

\* C28: start_streams starts native streaming only on a device for which a
\* callback wrapper has been registered.
C28_CallbackSetBeforeStart ==
  [][StreamsStarted => (callback_wrapper # Null /\ nativeReg # Null)]_vars

EnableOps == {"enable_video_input", "enable_video_input_with_allocator"}

\* one of the two enable calls returned in this step
EnableReturns == dlast' # dlast /\ dlast'.op \in EnableOps

\* C29: an enable call made while video input is active returns ACCESSDENIED
\* and has made no native call and boxed no provider context; the two active
\* flags, the stored provider handle, the native input, the provider handles
\* and the bridge are as they were.
C29_EnableWhileActiveDenied ==
  [][(ptr_video_active /\ EnableReturns) =>
       /\ dlast'.out = Err("ACCESSDENIED")
       /\ dlast'.calls = <<>>
       /\ dlast'.box = NoBox
       /\ UNCHANGED <<video_active, ptr_video_active, allocator_provider,
                      nativeVideo, providers, provVars>>]_vars

\* C29 witness: on a device enabled with an allocator provider, a second
\* enable call has returned ACCESSDENIED.
C29_Witness ==
  /\ dlast.op \in EnableOps /\ dlast.out = Err("ACCESSDENIED")
  /\ dlast.calls = <<>>
  /\ ptr_video_active /\ video_active
  /\ allocator_provider # Null /\ nativeVideo.provider = allocator_provider
  /\ providers[allocator_provider].st = "alive"

\* C30: an enable call that was made while video input was not active and
\* that fails, in the creation of the provider bridge or in the native enable
\* call, returns with the shared flag false, so that the next enable call is
\* not answered with ACCESSDENIED.
C30_FailedEnableClearsFlag ==
  [][(~ptr_video_active /\ EnableReturns /\ ~dlast'.out.ok) =>
       ~ptr_video_active']_vars

\* the native provider handles create_c_allocator_provider has returned
CreatedProviders == {p \in ProviderIds : providers[p].st # "none"}

\* C31: the host releases its reference to every provider handle it created
\* exactly once: never twice, a handle not yet released is the stored one,
\* and after teardown every handle has been released.  Between calls the
\* stored handle is non-null only while both active flags are set, and a
\* non-null stored handle is only ever replaced by null.
C31_ProviderReleasedExactlyOnce ==
  /\ [](/\ \A p \in CreatedProviders :
             /\ providers[p].released <= 1
             /\ ~providers[p].uaf
             /\ providers[p].released = 0 => allocator_provider = p
             /\ dpc = "closed" => providers[p].released = 1
        /\ allocator_provider # Null =>
             /\ allocator_provider \in CreatedProviders
             /\ providers[allocator_provider].released = 0
             /\ dpc = "open" => (video_active /\ ptr_video_active))
  /\ [][allocator_provider # Null =>
          allocator_provider' \in {allocator_provider, Null}]_vars

\* C31 witness: the device was enabled with an allocator provider, disabled,
\* enabled with a second one and dropped; both handles were released once.
C31_Witness ==
  /\ dpc = "closed"
  /\ CreatedProviders = {1, 2}
  /\ \A p \in CreatedProviders : providers[p].released = 1
  /\ TeardownDid("provider_release")

\* set_callback is called on a device that has no wrapper
RegistrationAttempt == SetCallbackCalled /\ callback_wrapper = Null

\* C32: a set_callback call on a device without wrapper boxes a new wrapper
\* and tries to register it, whether or not an earlier attempt failed.  If
\* the registration fails, that wrapper is freed with an empty slot,
\* callback_wrapper and the native registration stay as they were, the
\* handler of the call is in no slot and was never installed, and the call
\* returns the error at once; if it succeeds, no error is returned.
C32_FailedRegistrationRetried ==
  [][RegistrationAttempt =>
       LET w == FreshWrapper IN
         /\ wrappers[w].st = "none" /\ wrappers'[w].st \in {"alive", "freed"}
         /\ \A o \in WrapIds \ {w} : wrappers'[o] = wrappers[o]
         /\ RegistrationFails <=> ~sret'.ok
         /\ RegistrationFails <=> wrappers'[w].st = "freed"
         /\ RegistrationFails =>
              /\ sret'.err \in SdkErrors
              /\ wrappers'[w].handler = None /\ ~wrappers'[w].everReg
              /\ \A o \in WrapIds : wrappers'[o].handler # Handler(nsets')
              /\ nativeReg' = nativeReg /\ nativeReg' = Null
              /\ UNCHANGED <<setlog, harg, hpc, disp, seen, last>>
         /\ ~RegistrationFails =>
              /\ sret' = SetPending
              /\ callback_wrapper' = w /\ nativeReg' = w]_vars

\* C32 witness: the first set_callback failed in the registration and
\* returned the error; the second registered a new wrapper and returned
\* Ok(()) with its handler in the slot.
C32_Witness ==
  /\ sret = Ok("()") /\ hpc = "idle" /\ nsets = 2
  /\ wrappers[1].st = "freed" /\ ~wrappers[1].everReg
  /\ callback_wrapper = 2 /\ nativeReg = 2
  /\ wrappers[2].handler = Handler(2) /\ setlog = <<Handler(2)>>

\* disable_video_input returned in this step
DisableReturns == dlast' # dlast /\ dlast'.op = "disable_video_input"

\* C33: disable_video_input makes the native disable call and returns its
\* result; whatever that result, both active flags are false afterwards and
\* a stored allocator provider has been released once and the stored handle
\* is null; the callback registration, the wrapper and the slot are as they
\* were.  An enable call that follows is not answered with ACCESSDENIED.
C33_DisableClearsWhateverNativeSays ==
  [][/\ DisableReturns =>
          /\ ~video_active' /\ ~ptr_video_active'
          /\ allocator_provider' = Null
          /\ dlast'.calls[1] = "disable_video_input"
          /\ dlast'.out \in {SdkErrorResult(r) : r \in NativeResults}
          /\ dlast'.out.ok => ~nativeVideo'.enabled
          /\ ~dlast'.out.ok => nativeVideo' = nativeVideo
          /\ \A p \in ProviderIds :
               providers'[p].released =
                 providers[p].released + (IF p = allocator_provider THEN 1 ELSE 0)
          /\ dlast'.calls =
               IF allocator_provider # Null
               THEN <<"disable_video_input", "provider_release">>
               ELSE <<"disable_video_input">>
          /\ UNCHANGED <<inputVars, dpc>>
     /\ (dlast.op = "disable_video_input" /\ EnableReturns) =>
          /\ dlast'.out # Err("ACCESSDENIED")
          /\ dlast'.calls # <<>>]_vars

\* C33 witness: on a device enabled with an allocator provider and with a
\* callback registered, the native disable call failed; the flags are false,
\* the provider is released and the handle null, the registration is there.
C33_Witness ==
  /\ dlast.op = "disable_video_input" /\ ~dlast.out.ok
  /\ dlast.calls = <<"disable_video_input", "provider_release">>
  /\ ~video_active /\ ~ptr_video_active /\ allocator_provider = Null
  /\ nativeVideo.enabled /\ nativeVideo.provider # Null
  /\ providers[nativeVideo.provider].released = 1
  /\ nativeReg # Null /\ nativeReg = callback_wrapper

====
